---- MODULE Spec2Model ----
(***************************************************************************)
(* Model of scripts/mcp_ingest_state.py: the BGP/OSPF state ingester, its  *)
(* snapshot store (raw_state / normalized_state / schema_meta), the        *)
(* structural diff into summary_diff and the retention pruner.             *)
(*                                                                         *)
(* One step of the state machine is one invocation of main(argv) against   *)
(* the same SQLite store (the tool is a sequential batch tool).            *)
(***************************************************************************)
EXTENDS Integers, Sequences, FiniteSets, Bags, TLC

(***************************************************************************)
(* Bounds of the model.                                                    *)
(***************************************************************************)
\* Version identifiers are ISO timestamps compared as strings; the model
\* uses 1..MaxVersion with the integer order standing for that string order.
MaxVersion == 2
\* Upper bounds on the rows of the append-only tables.
MaxRaw == 2
MaxNorm == 2
MaxMeta == 1

Versions == 1..MaxVersion

(***************************************************************************)
(* Exit codes (lines 55-59).                                               *)
(***************************************************************************)
EXIT_OK == 0
EXIT_SCHEMA_MISSING == 2
EXIT_MCP_FAIL == 3
EXIT_NO_JSON == 4
EXIT_PREFLIGHT_FAIL == 5

(***************************************************************************)
(* JSON values as Python sees them after json.loads.  A dict is the        *)
(* sequence of its <<key, value>> pairs in insertion order (keys unique),  *)
(* a list the sequence of its elements.  None is JNull.                    *)
(***************************************************************************)
JNull == [t |-> "null"]
JStr(s) == [t |-> "str", s |-> s]
JInt(n) == [t |-> "int", n |-> n]
JList(l) == [t |-> "list", l |-> l]
JDict(d) == [t |-> "dict", d |-> d]

\* isinstance(x, dict) / list / str
IsDict(x) == x.t = "dict"
IsList(x) == x.t = "list"
IsStr(x) == x.t = "str"

\* k in o, for a dict o
Has(o, k) == \E i \in 1..Len(o.d) : o.d[i][1] = k

\* o.get(k), for a dict o
Get(o, k) ==
    IF Has(o, k) THEN o.d[CHOOSE i \in 1..Len(o.d) : o.d[i][1] = k][2] ELSE JNull

\* Python truthiness of a value (used by `a or b` and `if bgp:`)
Truthy(x) ==
    CASE x.t = "null" -> FALSE
      [] x.t = "str" -> x.s # ""
      [] x.t = "int" -> x.n # 0
      [] x.t = "list" -> Len(x.l) > 0
      [] x.t = "dict" -> Len(x.d) > 0

\* str.strip() on the strings of the model's universe
Strip(s) == CASE s = " " -> "" [] s = " r1 " -> "r1" [] OTHER -> s

\* int(s) on the strings of the model's universe: <<ok, value>>
IntOfStr(s) == CASE s = "7" -> <<TRUE, 7>> [] s = "-1" -> <<TRUE, -1>> [] OTHER -> <<FALSE, 0>>

\* needle in haystack for two str values, on the strings of the universe
\* (the only string of the universe that contains an alias name is that name)
IsSubstr(needle, haystack) == needle = haystack \/ needle = ""

SeqMin(S) == CHOOSE i \in S : \A j \in S : i <= j

(***************************************************************************)
(* _pick_host (lines 235-252).  "" stands for "no key matched".            *)
(***************************************************************************)
HostKeys == <<"host", "device", "router", "hostname", "node", "target", "inventory_hostname">>
MetaKeys == <<"meta", "_meta", "context", "details">>
MetaHostKeys == <<"host", "hostname", "device", "router", "node", "inventory_hostname">>

IsHostStr(v) == IsStr(v) /\ Strip(v.s) # ""

FirstHost(o, keys) ==
    LET idx == {i \in 1..Len(keys) : IsHostStr(Get(o, keys[i]))}
    IN  IF idx = {} THEN "" ELSE Strip(Get(o, keys[SeqMin(idx)]).s)

_pick_host(obj, default) ==
    LET top == FirstHost(obj, HostKeys)
        metas == {i \in 1..Len(MetaKeys) :
                     /\ IsDict(Get(obj, MetaKeys[i]))
                     /\ FirstHost(Get(obj, MetaKeys[i]), MetaHostKeys) # ""}
        ans == Get(obj, "ansible")
        av == IF Truthy(Get(ans, "inventory_hostname"))
              THEN Get(ans, "inventory_hostname") ELSE Get(ans, "host")
    IN  IF top # "" THEN top
        ELSE IF metas # {} THEN FirstHost(Get(obj, MetaKeys[SeqMin(metas)]), MetaHostKeys)
        ELSE IF IsDict(ans) /\ IsHostStr(av) THEN Strip(av.s)
        ELSE default

(***************************************************************************)
(* _as_int (lines 254-258): int(x), 0 when int() raises.                   *)
(***************************************************************************)
_as_int(x) ==
    CASE x.t = "int" -> x.n
      [] x.t = "str" -> IntOfStr(x.s)[2]
      [] OTHER -> 0

(***************************************************************************)
(* _load_aliases (lines 668-710) with no alias file: the built-in table.   *)
(***************************************************************************)
BuiltinAliases ==
    [bgp_peer |->
        [peer_ip |-> <<"peer_ip", "peerIp", "neighbor", "id">>,
         state |-> <<"state", "peerState", "sessionState">>,
         remoteAs |-> <<"remoteAs", "asn", "remote_as">>,
         pfxRcd |-> <<"pfxRcd", "prefixes_received", "prefixReceived">>],
     ospf_neighbor |->
        [neighbor_id |-> <<"neighbor_id", "id", "routerId">>,
         iface |-> <<"iface", "interface", "ifname">>,
         state |-> <<"state", "adjState">>,
         dead_time_raw |-> <<"dead_time_raw", "deadTime">>,
         address |-> <<"address", "neighborAddress">>]]

(***************************************************************************)
(* _load_aliases with an alias file (lines 689-710).  A file is            *)
(* [exists, y]: y is the value yaml.safe_load or json.load gives, of type  *)
(* "invalid" when neither parses the file.  The lists of a file hold       *)
(* strings.                                                                *)
(***************************************************************************)
AliasSections == {"bgp_peer", "ospf_neighbor"}

\* a list of the file as the sequence of its strings
AliasList(v) == [i \in DOMAIN v.l |-> v.l[i].s]

\* the fields of a section of the file whose value is a list (line 697)
ListedFields(d) == {d.d[i][1] : i \in {j \in DOMAIN d.d : IsList(d.d[j][2])}}

_load_aliases(file) ==
    IF ~file.exists \/ file.y.t # "dict" THEN BuiltinAliases
    ELSE [sect \in AliasSections |->
            IF IsDict(Get(file.y, sect))
            THEN [k \in DOMAIN BuiltinAliases[sect] \cup ListedFields(Get(file.y, sect)) |->
                    IF k \in ListedFields(Get(file.y, sect))
                    THEN AliasList(Get(Get(file.y, sect), k))
                    ELSE BuiltinAliases[sect][k]]
            ELSE BuiltinAliases[sect]]

(***************************************************************************)
(* _get_with_aliases (lines 554-559).  The result is                       *)
(* [raised |-> an exception left the function, val |-> the value].         *)
(* `k in src` and `src[k]` follow Python for a src that is not a dict:     *)
(* a str does a substring test and then fails on src[k]; a list does a     *)
(* membership test and then fails on src[k]; None and int fail on `in`.    *)
(***************************************************************************)
AliasKeys(aliases, canon) ==
    IF canon \in DOMAIN aliases THEN aliases[canon] ELSE <<canon>>

\* a variant that takes the first alias present, whatever its value
_get_with_aliases_FirstPresent(src, aliases, canon, default) ==
    LET keys == AliasKeys(aliases, canon)
        hit == {i \in 1..Len(keys) : Has(src, keys[i])}
    IN  [raised |-> src.t # "dict",
         val |-> IF src.t # "dict" \/ hit = {} THEN default ELSE Get(src, keys[SeqMin(hit)])]

_get_with_aliases(src, aliases, canon, default) ==
    LET keys == AliasKeys(aliases, canon)
        hit == {i \in 1..Len(keys) :
                   Has(src, keys[i]) /\ Get(src, keys[i]) \notin {JNull, JStr("")}}
    IN  CASE src.t = "dict" ->
               [raised |-> FALSE,
                val |-> IF hit = {} THEN default ELSE Get(src, keys[SeqMin(hit)])]
          [] src.t = "str" ->
               [raised |-> \E i \in 1..Len(keys) : IsSubstr(keys[i], src.s), val |-> default]
          [] src.t = "list" ->
               [raised |-> \E i \in 1..Len(keys) : \E j \in 1..Len(src.l) : src.l[j] = JStr(keys[i]),
                val |-> default]
          [] OTHER -> [raised |-> Len(keys) > 0, val |-> default]

(***************************************************************************)
(* parse_bgp_objects (lines 561-620).  A row is the tuple                  *)
(* <<host, peer_ip, peer_as, state, uptime_sec, prefixes_received,         *)
(*   collected_at, source>>; a summary maps a host to                      *)
(* <<host, collected_at, peers_total, peers_established, ospf_neighbors,   *)
(*   status, last_error>>.  The result is [raised, rows, summary]: raised *)
(* when an exception left the function.  Every local value that is read   *)
(* more than once is bound once, as the member of a one-element set.      *)
(***************************************************************************)
EmptyMap == [x \in {} |-> <<>>]

SectionAliases(aliases, sect) ==
    IF sect \in DOMAIN aliases THEN aliases[sect] ELSE EmptyMap

IsEstablished(state) == state \in {JStr("Established"), JStr("OK"), JStr("established")}

BgpLike(o) ==
    /\ \E k \in {"peer_ip", "peerIp", "neighbor"} : Has(o, k)
    /\ \E k \in {"state", "peerState", "sessionState"} : Has(o, k)

\* lines 580-592: the peers container of an object, JNull for None
BgpPeersObj(o) ==
    LET bgp == IF IsDict(Get(o, "bgp")) THEN Get(o, "bgp") ELSE JNull
        fromBgp == IF Truthy(bgp)
                   THEN IF IsDict(Get(bgp, "peers")) THEN Get(bgp, "peers")
                        ELSE IF IsDict(Get(bgp, "neighbors")) THEN Get(bgp, "neighbors")
                        ELSE IF IsList(Get(bgp, "peers")) THEN Get(bgp, "peers")
                        ELSE JNull
                   ELSE JNull
        ipv4 == IF IsDict(Get(o, "ipv4Unicast")) THEN Get(o, "ipv4Unicast") ELSE JNull
    IN  IF fromBgp # JNull THEN fromBgp
        ELSE IF Truthy(ipv4) /\ IsDict(Get(ipv4, "peers")) THEN Get(ipv4, "peers")
        ELSE JNull

\* one peer entry p under the address ip: lines 598-605 and 610-618
BgpEntry(host, ip, p, ap, collected_at) ==
    LET st == _get_with_aliases(p, ap, "state", JStr("-"))
        ras == _get_with_aliases(p, ap, "remoteAs", JInt(0))
        pf == _get_with_aliases(p, ap, "pfxRcd", JInt(0))
    IN  [raised |-> st.raised \/ ras.raised \/ pf.raised,
         state |-> st.val,
         row |-> <<host, ip, _as_int(ras.val), st.val, 0, _as_int(pf.val),
                   collected_at, "ansible-mcp">>]

\* the <<ip, entry>> pairs the loops at lines 597 and 607 visit, in order
RECURSIVE BgpListItems(_, _)
BgpListItems(l, ap) ==
    IF l = <<>> THEN <<>>
    ELSE IF IsDict(Head(l))
         THEN <<<<_get_with_aliases(Head(l), ap, "peer_ip", JStr("-")).val, Head(l)>>>>
              \o BgpListItems(Tail(l), ap)
         ELSE BgpListItems(Tail(l), ap)

\* a variant that visits the entries of a list only
BgpItems_ListOnly(peers_obj, ap) ==
    CASE IsList(peers_obj) -> BgpListItems(peers_obj.l, ap)
      [] OTHER -> <<>>

BgpItems(peers_obj, ap) ==
    CASE IsDict(peers_obj) ->
           [i \in 1..Len(peers_obj.d) |-> <<JStr(peers_obj.d[i][1]), peers_obj.d[i][2]>>]
      [] IsList(peers_obj) -> BgpListItems(peers_obj.l, ap)
      [] OTHER -> <<>>

\* lines 595-618 over the pairs of one object: what the loops add to rows,
\* total and est, or that an entry raised
BgpPeers(items, host, ap, collected_at) ==
    [raised |-> \E i \in DOMAIN items :
                    BgpEntry(host, items[i][1], items[i][2], ap, collected_at).raised,
     rows |-> [i \in DOMAIN items |->
                    BgpEntry(host, items[i][1], items[i][2], ap, collected_at).row],
     total |-> Len(items),
     est |-> Cardinality({i \in DOMAIN items :
                    IsEstablished(BgpEntry(host, items[i][1], items[i][2], ap, collected_at).state)})]

\* a variant in which a passed-over object still assigns its host's summary
BgpSkipped_Counted(host) ==
    [raised |-> FALSE, skipped |-> FALSE, host |-> host, rows |-> <<>>, total |-> 0, est |-> 0]

\* an object the loop passes over (continue at lines 567 and 594)
BgpSkipped(host) == [raised |-> FALSE, skipped |-> TRUE, host |-> host, rows |-> <<>>, total |-> 0, est |-> 0]

\* the body of the loop at line 564 for an object o whose host is known:
\* the rows it appends and the totals of the summary it assigns to the host
BgpObjectOf(o, host, ap, collected_at, strict) ==
    IF strict /\ host = "unknown" THEN BgpSkipped(host)
    ELSE IF BgpLike(o)
    THEN LET flat == BgpEntry(host, _get_with_aliases(o, ap, "peer_ip", JStr("-")).val, o, ap,
                              collected_at)
         IN  [raised |-> FALSE, skipped |-> FALSE, host |-> host, rows |-> <<flat.row>>,
              total |-> 1, est |-> IF IsEstablished(flat.state) THEN 1 ELSE 0]
    ELSE IF strict /\ BgpPeersObj(o) = JNull THEN BgpSkipped(host)
    ELSE CHOOSE r \in {[raised |-> res.raised, skipped |-> FALSE, host |-> host,
                        rows |-> res.rows, total |-> res.total, est |-> res.est] :
                          res \in {BgpPeers(items, host, ap, collected_at) :
                                      items \in {BgpItems(BgpPeersObj(o), ap)}}} : TRUE

\* a value that is not a dict has no .get (line 237)
BgpObject(o, collected_at, strict, aliases) ==
    IF ~IsDict(o)
    THEN [raised |-> TRUE, skipped |-> TRUE, host |-> "unknown", rows |-> <<>>, total |-> 0, est |-> 0]
    ELSE CHOOSE r \in {BgpObjectOf(o, host, SectionAliases(aliases, "bgp_peer"), collected_at, strict) :
                          host \in {_pick_host(o, "unknown")}} : TRUE

\* the rows of the objects from the i-th on, in order
RECURSIVE RowsFrom(_, _)
RowsFrom(per, i) == IF i > Len(per) THEN <<>> ELSE per[i].rows \o RowsFrom(per, i + 1)

\* the last object that assigned summary[host]
LastOf(per, host) ==
    CHOOSE i \in DOMAIN per :
        /\ ~per[i].skipped /\ per[i].host = host
        /\ \A j \in DOMAIN per : (~per[j].skipped /\ per[j].host = host) => j <= i

\* rows and summary after the loop, from what each object contributed
BgpCollect(per, collected_at) ==
    [raised |-> \E i \in DOMAIN per : per[i].raised,
     rows |-> RowsFrom(per, 1),
     summary |-> [h \in {per[i].host : i \in {j \in DOMAIN per : ~per[j].skipped}} |->
                    <<h, collected_at, per[LastOf(per, h)].total, per[LastOf(per, h)].est,
                      0, "ok", "">>]]

parse_bgp_objects(objs, collected_at, strict, aliases) ==
    CHOOSE r \in {BgpCollect(per, collected_at) :
                     per \in {<<>> \o [i \in DOMAIN objs |->
                                          BgpObject(objs[i], collected_at, strict, aliases)]}} : TRUE

(***************************************************************************)
(* parse_ospf_objects (lines 622-666).  A row is the tuple                 *)
(* <<host, neighbor_id, iface, state, dead_time_raw, address,              *)
(*   collected_at>>.  The result is [raised, rows, summary]; the summary   *)
(* is built from counts at lines 664-665.                                  *)
(***************************************************************************)
OspfLike(o) ==
    /\ \E k \in {"neighbor_id", "routerId", "id"} : Has(o, k)
    /\ \E k \in {"state", "adjState"} : Has(o, k)

OspfRow(host, n, ao, collected_at) ==
    <<host,
      _get_with_aliases(n, ao, "neighbor_id", JStr("-")).val,
      _get_with_aliases(n, ao, "iface", JStr("-")).val,
      _get_with_aliases(n, ao, "state", JStr("-")).val,
      _get_with_aliases(n, ao, "dead_time_raw", JStr("")).val,
      _get_with_aliases(n, ao, "address", JStr("")).val,
      collected_at>>

\* lines 641-648: the neighbor list of an object, JNull for None
OspfNeighbors(o) ==
    LET ospf == IF IsDict(Get(o, "ospf")) THEN Get(o, "ospf") ELSE JNull
    IN  IF Truthy(ospf) /\ IsList(Get(ospf, "neighbors")) THEN Get(ospf, "neighbors")
        ELSE IF IsList(Get(o, "neighbors")) THEN Get(o, "neighbors")
        ELSE IF IsList(Get(o, "adjacencies")) THEN Get(o, "adjacencies")
        ELSE JNull

\* a variant that stops at the first neighbor
OspfRows_First(l, host, ao, collected_at) ==
    IF l = <<>> THEN <<>>
    ELSE IF IsDict(Head(l)) THEN <<OspfRow(host, Head(l), ao, collected_at)>> ELSE <<>>

\* lines 652-662: one row per neighbor that is a dict
RECURSIVE OspfRows(_, _, _, _)
OspfRows(l, host, ao, collected_at) ==
    IF l = <<>> THEN <<>>
    ELSE IF IsDict(Head(l))
         THEN <<OspfRow(host, Head(l), ao, collected_at)>> \o OspfRows(Tail(l), host, ao, collected_at)
         ELSE OspfRows(Tail(l), host, ao, collected_at)

\* an object the loop passes over (continue at lines 629 and 650)
OspfSkipped(host) == [raised |-> FALSE, skipped |-> TRUE, host |-> host, rows |-> <<>>, count |-> 0]

\* the body of the loop at line 626 for an object o whose host is known:
\* the rows it appends and what it adds to counts[host]
OspfObjectOf(o, host, ao, collected_at, strict) ==
    IF strict /\ host = "unknown" THEN OspfSkipped(host)
    ELSE IF OspfLike(o)
    THEN [raised |-> FALSE, skipped |-> FALSE, host |-> host,
          rows |-> <<OspfRow(host, o, ao, collected_at)>>, count |-> 1]
    ELSE IF strict /\ OspfNeighbors(o) = JNull THEN OspfSkipped(host)
    ELSE CHOOSE r \in {[raised |-> FALSE, skipped |-> FALSE, host |-> host,
                        rows |-> OspfRows(neighbors, host, ao, collected_at),
                        count |-> Len(neighbors)] :
                          neighbors \in {IF OspfNeighbors(o) = JNull THEN <<>>
                                         ELSE OspfNeighbors(o).l}} : TRUE

OspfObject(o, collected_at, strict, aliases) ==
    IF ~IsDict(o)
    THEN [raised |-> TRUE, skipped |-> TRUE, host |-> "unknown", rows |-> <<>>, count |-> 0]
    ELSE CHOOSE r \in {OspfObjectOf(o, host, SectionAliases(aliases, "ospf_neighbor"), collected_at,
                                    strict) :
                          host \in {_pick_host(o, "unknown")}} : TRUE

\* counts[host] after the loop: the sum over the objects of the host
RECURSIVE CountOf(_, _, _)
CountOf(per, host, i) ==
    IF i > Len(per) THEN 0
    ELSE (IF ~per[i].skipped /\ per[i].host = host THEN per[i].count ELSE 0)
         + CountOf(per, host, i + 1)

\* rows and summary (lines 664-665) after the loop
OspfCollect(per, collected_at) ==
    [raised |-> \E i \in DOMAIN per : per[i].raised,
     rows |-> RowsFrom(per, 1),
     summary |-> [h \in {per[i].host : i \in {j \in DOMAIN per : ~per[j].skipped}} |->
                    <<h, collected_at, 0, 0, CountOf(per, h, 1), "ok", "">>]]

parse_ospf_objects(objs, collected_at, strict, aliases) ==
    CHOOSE r \in {OspfCollect(per, collected_at) :
                     per \in {<<>> \o [i \in DOMAIN objs |->
                                          OspfObject(objs[i], collected_at, strict, aliases)]}} : TRUE

(***************************************************************************)
(* The store.  routing_* are the current-state tables ensure_schema        *)
(* creates (lines 292-313); raw_state, normalized_state, schema_meta and   *)
(* summary_diff are created by an external schema file and exist or not    *)
(* (`tables`).  The code writes them with plain INSERT statements, so a    *)
(* table is the multiset of the rows inserted; normalized_state keeps the  *)
(* insertion order, which load_map's dict (line 500) depends on.           *)
(***************************************************************************)
VARIABLES
    tables,                 \* the snapshot tables that exist in the store
    routing_created,        \* ensure_schema has run on this store
    routing_bgp_peer,       \* set of rows, unique per (host, peer_ip, collected_at)
    routing_ospf_neighbor,  \* set of rows, unique per (host, neighbor_id, collected_at)
    routing_summary,        \* set of rows, unique per host
    raw_state,              \* bag of <<version, host, kind, payload_json, created_at>>
    normalized_state,       \* sequence of <<version, host, kind, k, v, created_at>>
    schema_meta,            \* bag of <<version, applied_by>>
    summary_diff,           \* bag of <<base_version, new_version, host, kind, k, change, before, after>>
    last,                   \* the last invocation of main: what it was given and what it reported
    call                    \* a function of the module applied on its own: its arguments and result

store == <<tables, routing_created, routing_bgp_peer, routing_ospf_neighbor, routing_summary,
           raw_state, normalized_state, schema_meta, summary_diff>>
vars == <<tables, routing_created, routing_bgp_peer, routing_ospf_neighbor, routing_summary,
          raw_state, normalized_state, schema_meta, summary_diff, last, call>>

SnapshotTables == {"raw_state", "normalized_state", "schema_meta", "summary_diff"}

\* _table_exists (lines 101-103)
_table_exists(name) == name \in tables

\* SQL NULL in a column
SqlNull == [t |-> "sqlnull"]

\* json.dumps(x) is a text determined by x, key order included; json.loads
\* gives the value back.  Two texts with the same pairs in another order are
\* different texts that decode to equal dicts (see _equal below).
json_dumps(x) == [t |-> "text", json |-> x]
json_loads(s) == s.json

Range(s) == {s[i] : i \in DOMAIN s}
BagOfSeq(s) == [x \in Range(s) |-> Cardinality({i \in DOMAIN s : s[i] = x})]
BagSize(b) == BagCardinality(b)

(***************************************************************************)
(* write_sqlite (lines 315-348), the part after the dry-run return.        *)
(* sqlite3 binds None, int and str; a dict or a list in a row raises       *)
(* before the commit at line 345 and the transaction is lost.              *)
(***************************************************************************)
Bindable(x) == x.t \in {"null", "str", "int"}

BgpRowBindable(r) == Bindable(r[2]) /\ Bindable(r[4])
OspfRowBindable(r) == \A i \in 2..6 : Bindable(r[i])

\* INSERT ... ON CONFLICT(cols) DO UPDATE SET every other column: the row
\* with the same values in the conflict columns is replaced by r
Upsert(tbl, r, cols) == {x \in tbl : \E c \in cols : x[c] # r[c]} \cup {r}

\* UPSERT_BGP (lines 261-270): ON CONFLICT(host,peer_ip,collected_at)
UPSERT_BGP(tbl, r) == Upsert(tbl, r, {1, 2, 7})

\* UPSERT_OSPF (lines 271-279): ON CONFLICT(host,neighbor_id,collected_at)
UPSERT_OSPF(tbl, r) == Upsert(tbl, r, {1, 2, 7})

\* UPSERT_SUMMARY (lines 280-290): ON CONFLICT(host)
UPSERT_SUMMARY(tbl, r) == Upsert(tbl, r, {1})

\* the loops at lines 339-344
RECURSIVE UpsertBgpRows(_, _)
UpsertBgpRows(tbl, rows) ==
    IF rows = <<>> THEN tbl ELSE UpsertBgpRows(UPSERT_BGP(tbl, Head(rows)), Tail(rows))

RECURSIVE UpsertOspfRows(_, _)
UpsertOspfRows(tbl, rows) ==
    IF rows = <<>> THEN tbl ELSE UpsertOspfRows(UPSERT_OSPF(tbl, Head(rows)), Tail(rows))

RECURSIVE UpsertSummaryRows(_, _)
UpsertSummaryRows(tbl, rows) ==
    IF rows = <<>> THEN tbl ELSE UpsertSummaryRows(UPSERT_SUMMARY(tbl, Head(rows)), Tail(rows))

\* a variant without the filter of lines 335-338
SummariesToWrite_All(summaries) == summaries

\* lines 334-338: the sentinel's summary row is deleted and never written
SummariesToWrite(summaries) == [h \in DOMAIN summaries \ {"unknown"} |-> summaries[h]]

RECURSIVE SeqOfSet(_)
SeqOfSet(S) == IF S = {} THEN <<>> ELSE LET x == CHOOSE y \in S : TRUE IN <<x>> \o SeqOfSet(S \ {x})

write_sqlite(bgp_rows, ospf_rows, summaries) ==
    LET kept == SummariesToWrite(summaries)
        ok == /\ \A i \in DOMAIN bgp_rows : BgpRowBindable(bgp_rows[i])
              /\ \A i \in DOMAIN ospf_rows : OspfRowBindable(ospf_rows[i])
    IN  [raised |-> ~ok,
         bgp |-> UpsertBgpRows(routing_bgp_peer, bgp_rows),
         ospf |-> UpsertOspfRows(routing_ospf_neighbor, ospf_rows),
         summary |-> UpsertSummaryRows({x \in routing_summary : x[1] # "unknown"},
                                       SeqOfSet({kept[h] : h \in DOMAIN kept}))]

(***************************************************************************)
(* _snapshot_raw_and_normalized (lines 370-421): the rows it inserts.      *)
(***************************************************************************)
RawRows(version, objs, kind, collected_at) ==
    [i \in DOMAIN objs |->
        <<version, _pick_host(objs[i], "unknown"), kind, json_dumps(objs[i]), collected_at>>]

\* a or b
PyOr(a, b) == IF Truthy(a) THEN a ELSE b

NormBgpRows(version, bgp_rows, collected_at) ==
    [i \in DOMAIN bgp_rows |->
        LET r == bgp_rows[i]
        IN  <<version, r[1], "bgp_peer", r[2],
              json_dumps(JDict(<<<<"peer_ip", r[2]>>, <<"remoteAs", JInt(r[3])>>,
                                 <<"state", r[4]>>, <<"pfxRcd", JInt(r[6])>>>>)),
              collected_at>>]

NormOspfRows(version, ospf_rows, collected_at) ==
    [i \in DOMAIN ospf_rows |->
        LET r == ospf_rows[i]
        IN  <<version, r[1], "ospf_neighbor", PyOr(r[2], PyOr(r[6], JStr("-"))),
              json_dumps(JDict(<<<<"neighbor_id", r[2]>>, <<"iface", r[3]>>, <<"state", r[4]>>,
                                 <<"dead_time_raw", r[5]>>, <<"address", r[6]>>>>)),
              collected_at>>]

\* the guard at line 378
SnapshotTablesPresent == _table_exists("raw_state") /\ _table_exists("normalized_state")

(***************************************************************************)
(* main, the ingest path (lines 969-1049): the merge of the two passes'    *)
(* summaries at lines 994-1008.                                            *)
(***************************************************************************)
PyMax(a, b) == IF a >= b THEN a ELSE b

\* a variant in which the second pass's summary replaces the first's
MergeSummaries_OspfWins(bgp_summary, ospf_summary, collected_at) ==
    [h \in DOMAIN bgp_summary \cup DOMAIN ospf_summary |->
        IF h \in DOMAIN ospf_summary THEN ospf_summary[h] ELSE bgp_summary[h]]

MergeSummaries(bgp_summary, ospf_summary, collected_at) ==
    [h \in DOMAIN bgp_summary \cup DOMAIN ospf_summary |->
        IF h \notin DOMAIN ospf_summary THEN bgp_summary[h]
        ELSE IF h \notin DOMAIN bgp_summary THEN ospf_summary[h]
        ELSE LET old == bgp_summary[h]
                 t == ospf_summary[h]
             IN  <<h, collected_at, old[3] + t[3], old[4] + t[4], PyMax(old[5], t[5]), "ok", "">>]

(***************************************************************************)
(* _compute_summary_diff (lines 452-551).                                  *)
(***************************************************************************)
\* _safe_json_load (lines 464-468): a text that is not JSON stays as it is
_safe_json_load(s) == IF s.t = "text" THEN json_loads(s) ELSE s

\* a variant that keeps the order of every list
RECURSIVE _normalize_Ordered(_, _)
_normalize_Ordered(obj, set_unordered) ==
    CASE obj.t = "dict" ->
           [t |-> "dict",
            m |-> [k \in {obj.d[i][1] : i \in DOMAIN obj.d} |->
                     _normalize_Ordered(Get(obj, k), set_unordered)]]
      [] obj.t = "list" ->
           [t |-> "list", l |-> [i \in DOMAIN obj.l |-> _normalize_Ordered(obj.l[i], FALSE)]]
      [] OTHER -> obj

\* _normalize (lines 470-478).  A normalized dict is the map from its keys
\* to the normalized values (Python's == on dicts ignores the order of the
\* pairs); with set_unordered a list becomes the sorted list of its
\* elements' canonical texts, that is the bag of the normalized elements.
RECURSIVE _normalize(_, _)
_normalize(obj, set_unordered) ==
    CASE obj.t = "dict" ->
           [t |-> "dict",
            m |-> [k \in {obj.d[i][1] : i \in DOMAIN obj.d} |->
                     _normalize(Get(obj, k), set_unordered)]]
      [] obj.t = "list" ->
           IF set_unordered
           THEN [t |-> "list",
                 b |-> BagOfSeq([i \in DOMAIN obj.l |-> _normalize(obj.l[i], TRUE)])]
           ELSE [t |-> "list",
                 l |-> [i \in DOMAIN obj.l |-> _normalize(obj.l[i], FALSE)]]
      [] OTHER -> obj

\* _equal (lines 480-481)
_equal(a, b, set_unordered) == _normalize(a, set_unordered) = _normalize(b, set_unordered)

\* a variant that never sees two types
TypeDiffers_Never(a, b) == FALSE

\* type(b_obj) is not type(n_obj) (line 531)
TypeDiffers(a, b) == a.t # b.t

\* load_map (lines 490-500): (host, kind, k) -> v of the version's rows that
\* pass the filters; a later row of the same key replaces an earlier one
MatchesFilters(r, version, host_filter, kind_filter) ==
    /\ r[1] = version
    /\ host_filter # "" => r[2] = host_filter
    /\ kind_filter # "" => r[3] = kind_filter

load_map(conn, version, host_filter, kind_filter) ==
    LET norm == conn.normalized_state
        idx == {i \in DOMAIN norm : MatchesFilters(norm[i], version, host_filter, kind_filter)}
        keys == {<<norm[i][2], norm[i][3], norm[i][4]>> : i \in idx}
    IN  [key \in keys |->
            LET mine == {i \in idx : <<norm[i][2], norm[i][3], norm[i][4]>> = key}
                lastIdx == CHOOSE i \in mine : \A j \in mine : j <= i
            IN  norm[lastIdx][5]]

\* a variant of the loop at lines 511-543 that skips the keys missing from
\* the new version
DiffRowsOfKey_NoRemoved(key, base, new, base_version, new_version, set_unordered) ==
    IF key \notin DOMAIN base
    THEN {<<base_version, new_version, key[1], key[2], key[3], "added", SqlNull, new[key]>>}
    ELSE IF key \notin DOMAIN new
    THEN {}
    ELSE IF TypeDiffers(_safe_json_load(base[key]), _safe_json_load(new[key]))
    THEN {<<base_version, new_version, key[1], key[2], key[3], "type", base[key], new[key]>>}
    ELSE IF ~_equal(_safe_json_load(base[key]), _safe_json_load(new[key]), set_unordered)
    THEN {<<base_version, new_version, key[1], key[2], key[3], "changed", base[key], new[key]>>}
    ELSE {}

\* lines 511-543: the row inserted for one key, or none
DiffRowsOfKey(key, base, new, base_version, new_version, set_unordered) ==
    IF key \notin DOMAIN base
    THEN {<<base_version, new_version, key[1], key[2], key[3], "added", SqlNull, new[key]>>}
    ELSE IF key \notin DOMAIN new
    THEN {<<base_version, new_version, key[1], key[2], key[3], "removed", base[key], SqlNull>>}
    ELSE IF TypeDiffers(_safe_json_load(base[key]), _safe_json_load(new[key]))
    THEN {<<base_version, new_version, key[1], key[2], key[3], "type", base[key], new[key]>>}
    ELSE IF ~_equal(_safe_json_load(base[key]), _safe_json_load(new[key]), set_unordered)
    THEN {<<base_version, new_version, key[1], key[2], key[3], "changed", base[key], new[key]>>}
    ELSE {}

\* a variant without the DELETE of line 506
DeletePair_Keep(diff, base_version, new_version) == diff

\* line 506: DELETE FROM summary_diff WHERE base_version=? AND new_version=?
DeletePair(diff, base_version, new_version) ==
    [r \in {x \in DOMAIN diff : ~(x[1] = base_version /\ x[2] = new_version)} |-> diff[r]]

NumChange(rows, changes) == Cardinality({r \in rows : r[6] \in changes})

ZeroCounts == [added |-> 0, removed |-> 0, changed |-> 0, total |-> 0]

\* the tables of the store the function reads through its connection
Conn == [tables |-> tables, normalized_state |-> normalized_state, summary_diff |-> summary_diff]

\* a variant that does not count the 'removed' rows
DiffCounts_NoRemoved(rows) ==
    [added |-> NumChange(rows, {"added"}),
     removed |-> 0,
     changed |-> NumChange(rows, {"type", "changed"}),
     total |-> NumChange(rows, {"added"}) + NumChange(rows, {"removed"})
               + NumChange(rows, {"type", "changed"})]

\* lines 544-551: the counts returned for the rows inserted
DiffCounts(rows) ==
    [added |-> NumChange(rows, {"added"}),
     removed |-> NumChange(rows, {"removed"}),
     changed |-> NumChange(rows, {"type", "changed"}),
     total |-> NumChange(rows, {"added"}) + NumChange(rows, {"removed"})
               + NumChange(rows, {"type", "changed"})]

\* lines 502-543: the rows inserted for the keys of the two maps
DiffRows(base, new, base_version, new_version, set_unordered) ==
    UNION {DiffRowsOfKey(key, base, new, base_version, new_version, set_unordered) :
              key \in DOMAIN base \cup DOMAIN new}

\* the whole function: [counts |-> what it returns, diff |-> summary_diff afterwards]
_compute_summary_diff(conn, base_version, new_version, host_filter, kind_filter, set_unordered) ==
    IF "normalized_state" \notin conn.tables \/ "summary_diff" \notin conn.tables
    THEN [counts |-> ZeroCounts, diff |-> conn.summary_diff]
    ELSE CHOOSE res \in
            {[counts |-> DiffCounts(rows),
              diff |-> DeletePair(conn.summary_diff, base_version, new_version) (+) SetToBag(rows)] :
                rows \in {DiffRows(base, new, base_version, new_version, set_unordered) :
                            base \in {load_map(conn, base_version, host_filter, kind_filter)},
                            new \in {load_map(conn, new_version, host_filter, kind_filter)}}} : TRUE

(***************************************************************************)
(* main, prune mode (lines 897-967).                                       *)
(***************************************************************************)
\* lines 905-910: the versions present in normalized_state or raw_state
StoredVersions ==
    (IF _table_exists("normalized_state")
     THEN {normalized_state[i][1] : i \in DOMAIN normalized_state} ELSE {})
    \cup
    (IF _table_exists("raw_state") THEN {r[1] : r \in DOMAIN raw_state} ELSE {})

\* a variant of lines 917-918 that keeps versions[:keep_n]
KeepSet_Oldest(versions, keep) ==
    LET keep_n == PyMax(0, keep)
    IN  IF keep_n > 0
        THEN {v \in versions : Cardinality({w \in versions : w < v}) < keep_n}
        ELSE {}

\* lines 917-918: set(versions[-keep_n:]) if keep_n > 0 else set()
KeepSet(versions, keep) ==
    LET keep_n == PyMax(0, keep)
    IN  IF keep_n > 0
        THEN {v \in versions : Cardinality({w \in versions : w > v}) < keep_n}
        ELSE {}

\* line 919
DelList(versions, keep) == versions \ KeepSet(versions, keep)

\* lines 936-956: the four DELETE statements
PruneDiff(del) ==
    IF _table_exists("summary_diff")
    THEN [r \in {x \in DOMAIN summary_diff : x[1] \notin del /\ x[2] \notin del} |-> summary_diff[r]]
    ELSE summary_diff

PruneNormalized(del) ==
    IF _table_exists("normalized_state")
    THEN SelectSeq(normalized_state, LAMBDA r : r[1] \notin del)
    ELSE normalized_state

\* a variant of the DELETE on raw_state that has no WHERE clause
PruneRaw_All(del) ==
    IF _table_exists("raw_state") THEN EmptyBag ELSE raw_state

PruneRaw(del) ==
    IF _table_exists("raw_state")
    THEN [r \in {x \in DOMAIN raw_state : x[1] \notin del} |-> raw_state[r]]
    ELSE raw_state

PruneMeta(del) ==
    IF _table_exists("schema_meta")
    THEN [r \in {x \in DOMAIN schema_meta : x[1] \notin del} |-> schema_meta[r]]
    ELSE schema_meta

(***************************************************************************)
(* _preflight (lines 732-764).  The environment of one invocation: whether *)
(* the store's directory exists and is writable, the --schema-sql file     *)
(* ("" when the option is not given) and the answer of the MCP health      *)
(* check (lines 713-730).  Beyond what _preflight looks at, the            *)
(* environment says what sqlite3 answers when the schema file is applied   *)
(* to the store (schema_apply_ok) and whether the INSERT statements of the *)
(* snapshot are accepted by the tables found under the snapshot names      *)
(* (snapshot_insert_ok; _table_exists looks at the name only).             *)
(***************************************************************************)
Envs == [db_dir_ok : BOOLEAN, schema_sql : {"", "ok", "missing"}, mcp_health : BOOLEAN,
         schema_apply_ok : BOOLEAN, snapshot_insert_ok : BOOLEAN]

\* the environments in which every statement sent to sqlite3 succeeds
SoundEnvs == {env \in Envs : env.schema_apply_ok /\ env.snapshot_insert_ok}

\* a variant without the checks of the schema file (lines 745-753)
_preflight_NoSchemaCheck(env) ==
    IF ~env.db_dir_ok THEN EXIT_PREFLIGHT_FAIL
    ELSE IF ~env.mcp_health THEN EXIT_PREFLIGHT_FAIL
    ELSE EXIT_OK

_preflight(env) ==
    IF ~env.db_dir_ok THEN EXIT_PREFLIGHT_FAIL
    ELSE IF env.schema_sql = "missing" THEN EXIT_PREFLIGHT_FAIL
    ELSE IF ~env.mcp_health THEN EXIT_PREFLIGHT_FAIL
    ELSE EXIT_OK

(***************************************************************************)
(* What the collection layer hands to one ingest run.  _call_playbook      *)
(* (lines 144-165) returns None or a result; _extract_result_objects       *)
(* (lines 195-232) harvests the result's text into a list of JSON values.  *)
(* A result is given here by the list it harvests to.                      *)
(***************************************************************************)
NoResult == [none |-> TRUE, objs |-> <<>>]
Result(objs) == [none |-> FALSE, objs |-> objs]

\* _extract_result_objects(res or {})
_extract_result_objects(res) == IF res.none THEN <<>> ELSE res.objs

Peer(state) == JDict(<< <<"state", JStr(state)>>, <<"remoteAs", JInt(65001)>>, <<"pfxRcd", JInt(42)>> >>)

ObjUp ==
    JDict(<< <<"host", JStr("r1")>>,
             <<"bgp", JDict(<< <<"peers", JDict(<< <<"10.0.0.1", Peer("Established")>> >>)>> >>)>> >>)
ObjDown ==
    JDict(<< <<"host", JStr("r1")>>,
             <<"bgp", JDict(<< <<"peers", JDict(<< <<"10.0.0.1", Peer("Idle")>> >>)>> >>)>> >>)
ObjNoHost ==
    JDict(<< <<"bgp", JDict(<< <<"peers", JDict(<< <<"10.0.0.1", Peer("Established")>> >>)>> >>)>> >>)
ObjOspf ==
    JDict(<< <<"host", JStr("r1")>>,
             <<"ospf", JDict(<< <<"neighbors",
                 JList(<< JDict(<< <<"neighbor_id", JStr("1.1.1.1")>>, <<"iface", JStr("eth0")>>,
                                  <<"state", JStr("Full")>>, <<"dead_time_raw", JStr("00:38:00")>>,
                                  <<"address", JStr("10.0.0.1")>> >>) >>)>> >>)>> >>)

\* objects whose peers or neighbors are well-formed, empty, or hold entries
\* that are not objects
PeerOf(state, remote_as, pfx) ==
    JDict(<< <<"state", state>>, <<"remoteAs", remote_as>>, <<"pfxRcd", pfx>> >>)

HostPeers(host, peers) ==
    JDict(<< <<"host", JStr(host)>>, <<"bgp", JDict(<< <<"peers", peers>> >>)>> >>)

Neighbor(id) ==
    JDict(<< <<"neighbor_id", JStr(id)>>, <<"iface", JStr("eth0")>>, <<"state", JStr("Full")>>,
             <<"dead_time_raw", JStr("00:38:00")>>, <<"address", JStr("10.0.0.1")>> >>)

HostNeighbors(host, neighbors) ==
    JDict(<< <<"host", JStr(host)>>, <<"ospf", JDict(<< <<"neighbors", JList(neighbors)>> >>)>> >>)

\* {"host":"r2","bgp":{"peers":{}}}
ObjEmptyPeers == HostPeers("r2", JDict(<<>>))
\* two peers, one established, one idle whose counters are not numbers
ObjTwoPeers ==
    HostPeers("r2", JDict(<< <<"10.0.0.1", PeerOf(JStr("Established"), JInt(65001), JStr("7"))>>,
                            <<"10.0.0.2", PeerOf(JStr("Idle"), JStr("AS65002"), JNull)>> >>))
\* a peer entry that is null
ObjPeerNull == HostPeers("r1", JDict(<< <<"10.0.0.1", JNull>> >>))
\* a peer list with an entry that is a number
ObjPeerList ==
    HostPeers("r1", JList(<< JInt(7),
                             JDict(<< <<"peer_ip", JStr("10.0.0.3")>>, <<"state", JStr("OK")>> >>) >>))
\* an object that is itself a peer and also carries a peers dict
ObjPeerAndPeers ==
    JDict(<< <<"host", JStr("r1")>>, <<"peer_ip", JStr("10.0.0.9")>>, <<"state", JStr("Idle")>>,
             <<"bgp", JDict(<< <<"peers",
                 JDict(<< <<"10.0.0.1", PeerOf(JStr("Established"), JInt(65001), JInt(42))>>,
                          <<"10.0.0.2", PeerOf(JStr("Established"), JInt(65002), JInt(1))>> >>)>> >>)>> >>)
ObjEmptyNeighbors == HostNeighbors("r2", <<>>)
ObjTwoNeighbors == HostNeighbors("r2", <<Neighbor("1.1.1.1"), Neighbor("2.2.2.2")>>)
\* a neighbor list with an entry that is a string
ObjNeighborStr == HostNeighbors("r1", <<JStr("Full"), Neighbor("1.1.1.1")>>)

\* a peers dict whose key is the empty string
ObjBlankKey ==
    HostPeers("r1", JDict(<< <<"", PeerOf(JStr("Established"), JInt(65001), JInt(42))>> >>))

\* every harvest of the model
BgpResults == {NoResult, Result(<<>>), Result(<<ObjUp>>), Result(<<ObjDown>>),
               Result(<<ObjNoHost>>), Result(<<ObjUp, ObjUp>>)}
OspfResults == {NoResult, Result(<<>>), Result(<<ObjOspf>>)}

\* the harvests of one known host's peer, up or down, once or twice
SnapBgpResults == {NoResult, Result(<<>>), Result(<<ObjUp>>), Result(<<ObjDown>>),
                   Result(<<ObjUp, ObjUp>>)}
SnapOspfResults == {NoResult}

\* the two parsers on every harvest the collection layer can hand over
\* the harvests of the verify runs: a peer, a host without peers (raw facts
\* and no normalized fact), a peer under an empty key
VerifyBgpResults == {NoResult, Result(<<ObjUp>>), Result(<<ObjEmptyPeers>>), Result(<<ObjBlankKey>>)}

BgpParsed ==
    [res \in BgpResults \cup VerifyBgpResults, now \in Versions, strict \in BOOLEAN |->
        parse_bgp_objects(_extract_result_objects(res), now, strict, BuiltinAliases)]
OspfParsed ==
    [res \in OspfResults, now \in Versions, strict \in BOOLEAN |->
        parse_ospf_objects(_extract_result_objects(res), now, strict, BuiltinAliases)]

(***************************************************************************)
(* Initial state: a store whose schema file created any of the snapshot    *)
(* tables, with no rows, before the first invocation.  `last` is what the  *)
(* last invocation reported: its exit code and event (lines 360-365),      *)
(* with what it was given: --dry-run, its environment, and what the two    *)
(* playbook calls of lines 977-978 returned (NotCalled when the run ended  *)
(* before them), and what its ensure-schema step logged (lines 972-974,    *)
(* "" for nothing).                                                        *)
(***************************************************************************)
Report(rc, event, dry_run, env, mcp, schema_step) ==
    [rc |-> rc, event |-> event, dry_run |-> dry_run, env |-> env, mcp |-> mcp,
     schema_step |-> schema_step]

\* the two playbook calls: whether they were made, and whether each
\* returned a result (not None)
NotCalled == [called |-> FALSE, bgp |-> FALSE, ospf |-> FALSE]
Called(res_bgp, res_ospf) == [called |-> TRUE, bgp |-> ~res_bgp.none, ospf |-> ~res_ospf.none]

\* before the first invocation
NoInvocation ==
    Report(EXIT_OK, "none", FALSE,
           [db_dir_ok |-> TRUE, schema_sql |-> "", mcp_health |-> TRUE,
            schema_apply_ok |-> TRUE, snapshot_insert_ok |-> TRUE], NotCalled, "")

\* no function has been applied on its own
NoCall == [fn |-> "none"]

\* a store with no rows
EmptyStore(schemas) ==
    /\ tables \in schemas
    /\ routing_created = FALSE
    /\ routing_bgp_peer = {}
    /\ routing_ospf_neighbor = {}
    /\ routing_summary = {}
    /\ raw_state = EmptyBag
    /\ normalized_state = <<>>
    /\ schema_meta = EmptyBag
    /\ summary_diff = EmptyBag

InitStore(schemas) ==
    /\ EmptyStore(schemas)
    /\ last = NoInvocation
    /\ call = NoCall

(***************************************************************************)
(* main, ingest path (lines 806-810 and 969-1049).  now is the time of the *)
(* run: collected_at (line 987) and version_id (line 988) are both taken  *)
(* from it.                                                                *)
(***************************************************************************)
\* _snapshot_raw_and_normalized runs (line 1012 and the guard at line 378)
Snapshots(dry_run, snapshot) == ~dry_run /\ snapshot /\ SnapshotTablesPresent

\* _insert_schema_meta runs and inserts (lines 1014-1017 and 423-435)
InsertsMeta(env, dry_run, snapshot, want_meta) ==
    ~dry_run /\ snapshot /\ want_meta /\ env.schema_sql # "" /\ _table_exists("schema_meta")

\* a variant of line 979 with `or`
BothNone_Either(res_bgp, res_ospf) == res_bgp.none \/ res_ospf.none

\* line 979: res_bgp is None and res_ospf is None
BothNone(res_bgp, res_ospf) == res_bgp.none /\ res_ospf.none

\* lines 972-974: with --ensure-schema and a schema file that exists the
\* step logs this event; it sends nothing to sqlite3
EnsureSchemaStep(ensure_schema, env) ==
    IF ensure_schema /\ env.schema_sql = "ok" THEN "ensure_schema.nop" ELSE ""

\* an INSERT of _snapshot_raw_and_normalized raises (lines 383-417): there
\* is a row to insert and the tables do not accept it
SnapshotRaises(env, objs_bgp, objs_ospf, bgp_rows, ospf_rows) ==
    /\ ~env.snapshot_insert_ok
    /\ Len(objs_bgp) + Len(objs_ospf) + Len(bgp_rows) + Len(ospf_rows) > 0

IngestRun(env, dry_run, ensure_schema, strict, snapshot, want_meta, res_bgp, res_ospf, now) ==
    IF _preflight(env) # EXIT_OK
    THEN \* lines 806-809
         /\ last' = Report(_preflight(env), "preflight.fail", dry_run, env, NotCalled, "")
         /\ UNCHANGED store
    ELSE IF BothNone(res_bgp, res_ospf)
    THEN \* lines 979-982
         /\ last' = Report(EXIT_MCP_FAIL, "mcp.empty", dry_run, env, Called(res_bgp, res_ospf), EnsureSchemaStep(ensure_schema, env))
         /\ UNCHANGED store
    ELSE
    \E bgp \in {BgpParsed[res_bgp, now, strict]}, ospf \in {OspfParsed[res_ospf, now, strict]} :
        IF bgp.raised \/ ospf.raised
        THEN \* lines 1046-1049, an exception of a parser
             /\ last' = Report(EXIT_MCP_FAIL, "ingest.error", dry_run, env, Called(res_bgp, res_ospf),
                             EnsureSchemaStep(ensure_schema, env))
             /\ UNCHANGED store
        ELSE IF dry_run
        THEN \* lines 322-330; the snapshot is skipped at line 1012
             /\ last' = Report(EXIT_OK, "ingest.ok", dry_run, env, Called(res_bgp, res_ospf),
                             EnsureSchemaStep(ensure_schema, env))
             /\ UNCHANGED store
        ELSE
        \E w \in {write_sqlite(bgp.rows, ospf.rows, MergeSummaries(bgp.summary, ospf.summary, now))} :
            IF w.raised
            THEN \* ensure_schema has run, the transaction of write_sqlite is lost
                 /\ last' = Report(EXIT_MCP_FAIL, "ingest.error", dry_run, env, Called(res_bgp, res_ospf),
                             EnsureSchemaStep(ensure_schema, env))
                 /\ routing_created' = TRUE
                 /\ UNCHANGED <<tables, routing_bgp_peer, routing_ospf_neighbor, routing_summary,
                                raw_state, normalized_state, schema_meta, summary_diff>>
            ELSE IF /\ Snapshots(dry_run, snapshot)
                    /\ SnapshotRaises(env, _extract_result_objects(res_bgp),
                                      _extract_result_objects(res_ospf), bgp.rows, ospf.rows)
            THEN \* write_sqlite has committed (line 345); the snapshot raises before
                 \* its commit at line 417 and main ends at lines 1046-1049
                 /\ last' = Report(EXIT_MCP_FAIL, "ingest.error", dry_run, env, Called(res_bgp, res_ospf),
                             EnsureSchemaStep(ensure_schema, env))
                 /\ routing_created' = TRUE
                 /\ routing_bgp_peer' = w.bgp
                 /\ routing_ospf_neighbor' = w.ospf
                 /\ routing_summary' = w.summary
                 /\ UNCHANGED <<tables, raw_state, normalized_state, schema_meta, summary_diff>>
            ELSE
            \E raw2 \in {IF Snapshots(dry_run, snapshot)
                         THEN raw_state
                              (+) BagOfSeq(RawRows(now, _extract_result_objects(res_bgp), "bgp", now))
                              (+) BagOfSeq(RawRows(now, _extract_result_objects(res_ospf), "ospf", now))
                         ELSE raw_state},
               norm2 \in {IF Snapshots(dry_run, snapshot)
                          THEN normalized_state \o NormBgpRows(now, bgp.rows, now)
                                                \o NormOspfRows(now, ospf.rows, now)
                          ELSE normalized_state},
               meta2 \in {IF InsertsMeta(env, dry_run, snapshot, want_meta)
                          THEN schema_meta (+) SetToBag({<<now, "mcp_ingest_state">>})
                          ELSE schema_meta} :
                /\ BagSize(raw2) <= MaxRaw
                /\ Len(norm2) <= MaxNorm
                /\ BagSize(meta2) <= MaxMeta
                /\ last' = Report(EXIT_OK, "ingest.ok", dry_run, env, Called(res_bgp, res_ospf),
                             EnsureSchemaStep(ensure_schema, env))
                /\ routing_created' = TRUE
                /\ routing_bgp_peer' = w.bgp
                /\ routing_ospf_neighbor' = w.ospf
                /\ routing_summary' = w.summary
                /\ raw_state' = raw2
                /\ normalized_state' = norm2
                /\ schema_meta' = meta2
                /\ UNCHANGED <<tables, summary_diff>>

\* --ensure-schema, --strict, --snapshot and --schema-meta (lines 776-784)
IngestOptions ==
    [ensure_schema : BOOLEAN, strict : BOOLEAN, snapshot : BOOLEAN, want_meta : BOOLEAN]

\* an ingest run whose environment, options and harvests are drawn from
\* the given sets; the options and harvests are read only after a
\* successful preflight
Ingest(envs, options, results_bgp, results_ospf) ==
    /\ UNCHANGED call
    /\ \E env \in envs, dry_run \in BOOLEAN :
        IF _preflight(env) # EXIT_OK
        THEN IngestRun(env, dry_run, FALSE, FALSE, FALSE, FALSE, NoResult, NoResult, 1)
        ELSE \E opt \in options, res_bgp \in results_bgp, res_ospf \in results_ospf,
                now \in Versions :
                IngestRun(env, dry_run, opt.ensure_schema, opt.strict, opt.snapshot,
                          opt.want_meta, res_bgp, res_ospf, now)

(***************************************************************************)
(* main, diff mode (lines 806-833).  A missing --base or --new is 0.  The   *)
(* mode does not read --dry-run.                                           *)
(***************************************************************************)
NoVersion == 0
HostFilters == {"", "r1"}
KindFilters == {"", "bgp_peer"}

DiffRun(env, dry_run, base, new, host_filter, kind_filter, set_unordered) ==
    IF _preflight(env) # EXIT_OK
    THEN /\ last' = Report(_preflight(env), "preflight.fail", dry_run, env, NotCalled, "")
         /\ UNCHANGED store
    ELSE IF base = NoVersion \/ new = NoVersion
    THEN \* lines 814-817
         /\ last' = Report(EXIT_PREFLIGHT_FAIL, "diff.args.missing", dry_run, env, NotCalled, "")
         /\ UNCHANGED store
    ELSE /\ last' = Report(EXIT_OK, "diff.done", dry_run, env, NotCalled, "")
         /\ summary_diff' =
                _compute_summary_diff(Conn, base, new, host_filter, kind_filter,
                                      set_unordered).diff
         /\ UNCHANGED <<tables, routing_created, routing_bgp_peer, routing_ospf_neighbor,
                        routing_summary, raw_state, normalized_state, schema_meta>>

\* --diff-host, --diff-kind and --set-unordered (lines 792-794)
DiffOptions == [host_filter : HostFilters, kind_filter : KindFilters, set_unordered : BOOLEAN]

\* a diff run whose filters are drawn from the given set
Diff(envs, options) ==
    /\ UNCHANGED call
    /\ \E env \in envs, dry_run \in BOOLEAN :
        IF _preflight(env) # EXIT_OK
        THEN DiffRun(env, dry_run, NoVersion, NoVersion, "", "", FALSE)
        ELSE \E base \in Versions \cup {NoVersion}, new \in Versions \cup {NoVersion},
                opt \in options :
                DiffRun(env, dry_run, base, new, opt.host_filter, opt.kind_filter,
                        opt.set_unordered)

(***************************************************************************)
(* main, prune mode (lines 806-810 and 897-967).                           *)
(***************************************************************************)
KeepValues == -1..(MaxVersion + 1)

\* a variant of prune mode without the --dry-run return of lines 927-932
PruneRun_IgnoresDryRun(env, keep, dry_run) ==
    LET versions == StoredVersions
        del == DelList(versions, keep)
    IN  IF _preflight(env) # EXIT_OK
        THEN /\ last' = Report(_preflight(env), "preflight.fail", dry_run, env, NotCalled, "")
             /\ UNCHANGED store
        ELSE IF versions = {}
        THEN /\ last' = Report(EXIT_OK, "prune.empty", dry_run, env, NotCalled, "")
             /\ UNCHANGED store
        ELSE IF del = {}
        THEN /\ last' = Report(EXIT_OK, "prune.nodel", dry_run, env, NotCalled, "")
             /\ UNCHANGED store
        ELSE /\ last' = Report(EXIT_OK, "prune.ok", dry_run, env, NotCalled, "")
             /\ summary_diff' = PruneDiff(del)
             /\ normalized_state' = PruneNormalized(del)
             /\ raw_state' = PruneRaw(del)
             /\ schema_meta' = PruneMeta(del)
             /\ UNCHANGED <<tables, routing_created, routing_bgp_peer, routing_ospf_neighbor,
                            routing_summary>>

PruneRun(env, keep, dry_run) ==
    LET versions == StoredVersions
        del == DelList(versions, keep)
    IN  IF _preflight(env) # EXIT_OK
        THEN /\ last' = Report(_preflight(env), "preflight.fail", dry_run, env, NotCalled, "")
             /\ UNCHANGED store
        ELSE IF versions = {}
        THEN \* lines 911-915
             /\ last' = Report(EXIT_OK, "prune.empty", dry_run, env, NotCalled, "")
             /\ UNCHANGED store
        ELSE IF del = {}
        THEN \* lines 921-925
             /\ last' = Report(EXIT_OK, "prune.nodel", dry_run, env, NotCalled, "")
             /\ UNCHANGED store
        ELSE IF dry_run
        THEN \* lines 927-932
             /\ last' = Report(EXIT_OK, "prune.plan", dry_run, env, NotCalled, "")
             /\ UNCHANGED store
        ELSE \* lines 934-963
             /\ last' = Report(EXIT_OK, "prune.ok", dry_run, env, NotCalled, "")
             /\ summary_diff' = PruneDiff(del)
             /\ normalized_state' = PruneNormalized(del)
             /\ raw_state' = PruneRaw(del)
             /\ schema_meta' = PruneMeta(del)
             /\ UNCHANGED <<tables, routing_created, routing_bgp_peer, routing_ospf_neighbor,
                            routing_summary>>

Prune(envs) ==
    /\ UNCHANGED call
    /\ \E env \in envs, dry_run \in BOOLEAN :
        IF _preflight(env) # EXIT_OK
        THEN PruneRun(env, 0, dry_run)
        ELSE \E keep \in KeepValues : PruneRun(env, keep, dry_run)

(***************************************************************************)
(* main, verify mode (lines 806-810 and 836-894).  A missing --version is  *)
(* NoVersion.  The mode writes nothing.                                    *)
(***************************************************************************)
\* the report of a verify run: the version verified and the details
VerifyReport(rc, event, env, version, target, details) ==
    [rc |-> rc, event |-> event, dry_run |-> FALSE, env |-> env, mcp |-> NotCalled,
     schema_step |-> "", version |-> version, target |-> target, details |-> details]

NoDetails == [x \in {} |-> 0]

\* SELECT version FROM t ORDER BY created_at DESC LIMIT 1: the version of a
\* row whose created_at is the greatest, for rows with created_at at at
LatestOf(rows, at) ==
    {r[1] : r \in {x \in rows : \A y \in rows : y[at] <= x[at]}}

\* latest_version (lines 840-844): the values it can return, NoVersion for
\* None
latest_version ==
    LET v1 == LatestOf(DOMAIN raw_state, 5)
        v2 == LatestOf(Range(normalized_state), 6)
    IN  IF v1 = {} /\ v2 = {} THEN {NoVersion}
        ELSE IF v1 = {} THEN v2
        ELSE IF v2 = {} THEN v1
        ELSE {PyMax(a, b) : a \in v1, b \in v2}

\* SELECT COUNT(*) FROM raw_state WHERE version=? AND kind=?
RawCount(version, kind) ==
    BagCardinality([r \in {x \in DOMAIN raw_state : x[1] = version /\ x[3] = kind} |->
                       raw_state[r]])

\* SELECT COUNT(*) FROM normalized_state WHERE version=? AND kind=?
NormCount(version, kind) ==
    Cardinality({i \in DOMAIN normalized_state :
                    normalized_state[i][1] = version /\ normalized_state[i][3] = kind})

\* lines 869-877: the metrics of the target version
VerifyDetails(target) ==
    LET counts == [raw_bgp |-> RawCount(target, "bgp"),
                   raw_ospf |-> RawCount(target, "ospf"),
                   norm_bgp |-> NormCount(target, "bgp_peer"),
                   norm_ospf |-> NormCount(target, "ospf_neighbor"),
                   bad_keys |-> Cardinality({i \in DOMAIN normalized_state :
                                    /\ normalized_state[i][1] = target
                                    /\ normalized_state[i][4] \in {SqlNull, JStr("")}})]
    IN  IF routing_created
        THEN [m \in DOMAIN counts \cup {"unknown_hosts"} |->
                IF m = "unknown_hosts"
                THEN Cardinality({r \in routing_summary : r[1] = "unknown"})
                ELSE counts[m]]
        ELSE counts

\* a variant of line 875 that stops at the raw and normalized counts
VerifyPassed_CountsOnly(d) ==
    /\ d.raw_bgp + d.raw_ospf >= 1
    /\ d.norm_bgp + d.norm_ospf >= 1

\* lines 875-880
VerifyPassed(d) ==
    /\ d.raw_bgp + d.raw_ospf >= 1
    /\ d.norm_bgp + d.norm_ospf >= 1
    /\ d.bad_keys = 0
    /\ "unknown_hosts" \in DOMAIN d => d.unknown_hosts = 0

VerifyRun(env, version) ==
    /\ UNCHANGED store
    /\ IF _preflight(env) # EXIT_OK
       THEN last' = Report(_preflight(env), "preflight.fail", FALSE, env, NotCalled, "")
       ELSE IF version = NoVersion /\ ~(_table_exists("raw_state") /\ _table_exists("normalized_state"))
       THEN \* a SELECT of latest_version raises: lines 891-894
            last' = VerifyReport(EXIT_MCP_FAIL, "verify.error", env, version, NoVersion, NoDetails)
       ELSE \E target \in (IF version # NoVersion THEN {version} ELSE latest_version) :
              IF target = NoVersion
              THEN \* lines 847-851
                   last' = VerifyReport(EXIT_PREFLIGHT_FAIL, "verify.no_version", env, version,
                                        target, NoDetails)
              ELSE IF ~(_table_exists("raw_state") /\ _table_exists("normalized_state"))
              THEN \* lines 856-862
                   last' = VerifyReport(EXIT_PREFLIGHT_FAIL, "verify.tables.missing", env,
                                        version, target, NoDetails)
              ELSE \E d \in {VerifyDetails(target)} :
                     IF VerifyPassed(d)
                     THEN last' = VerifyReport(EXIT_OK, "verify.ok", env, version, target, d)
                     ELSE last' = VerifyReport(EXIT_PREFLIGHT_FAIL, "verify.fail", env, version,
                                               target, d)

\* a verify run with or without --version
Verify(envs) ==
    /\ UNCHANGED call
    /\ \E env \in envs :
        IF _preflight(env) # EXIT_OK
        THEN VerifyRun(env, NoVersion)
        ELSE \E version \in Versions \cup {NoVersion} : VerifyRun(env, version)

(***************************************************************************)
(* Specifications.  SpecCurrent: a store without the snapshot tables       *)
(* (the snapshot is an optional part of the schema), every harvest.        *)
(* SpecSnapshot: a store with the four snapshot tables and the harvests    *)
(* of one known host.                                                      *)
(***************************************************************************)
\* the environments of the two specifications: sqlite3 accepts every
\* statement, --schema-sql names a file that exists and the collection
\* layer is healthy; the store's directory is writable or not
MainEnvs == {env \in SoundEnvs : env.schema_sql = "ok" /\ env.mcp_health}

InitCurrent == InitStore({{}})
\* without the schema_meta table --schema-meta changes nothing, and
\* --ensure-schema changes nothing anywhere
CurrentOptions == {opt \in IngestOptions : ~opt.want_meta /\ ~opt.ensure_schema}
NextCurrent ==
    \/ Ingest(MainEnvs, CurrentOptions, BgpResults, OspfResults)
    \/ Diff(MainEnvs, DiffOptions)
    \/ Prune(MainEnvs)
SpecCurrent == InitCurrent /\ [][NextCurrent]_vars

\* every run is given --snapshot; no host of SnapBgpResults is unresolved,
\* so --strict changes nothing
SnapOptions == {opt \in IngestOptions : ~opt.strict /\ opt.snapshot /\ ~opt.ensure_schema}
\* no value of SnapBgpResults holds an array, so --set-unordered changes nothing
SnapDiffOptions == {opt \in DiffOptions : ~opt.set_unordered}
InitSnapshot == InitStore({SnapshotTables})
NextSnapshot ==
    \/ Ingest(MainEnvs, SnapOptions, SnapBgpResults, SnapOspfResults)
    \/ Diff(MainEnvs, SnapDiffOptions)
    \/ Prune(MainEnvs)
SpecSnapshot == InitSnapshot /\ [][NextSnapshot]_vars

\* SpecFilter: a store with the snapshot tables, without summary_diff or
\* without any of them; snapshot runs whose two passes report the peer and
\* the neighbor of r1, or the peer alone, and diff runs with every filter
FilterBgpResults == {Result(<<ObjUp>>), Result(<<ObjDown>>)}
FilterOspfResults == {NoResult, Result(<<ObjOspf>>)}
InitFilter == InitStore({SnapshotTables, SnapshotTables \ {"summary_diff"}, {}})
NextFilter ==
    \/ Ingest(MainEnvs, SnapOptions, FilterBgpResults, FilterOspfResults)
    \/ Diff(MainEnvs, DiffOptions)
SpecFilter == InitFilter /\ [][NextFilter]_vars

\* SpecGate: every environment of the gate, and past the gate a schema file
\* that sqlite3 applies or fails to apply; the runs are given --snapshot and
\* --schema-meta and harvest at most one object
GateEnvs ==
    SoundEnvs \cup {env \in Envs : /\ _preflight(env) = EXIT_OK
                                   /\ env.schema_sql = "ok"
                                   /\ env.snapshot_insert_ok}
GateOptions == {opt \in IngestOptions : ~opt.strict /\ opt.snapshot /\ opt.want_meta}
GateBgpResults == {NoResult, Result(<<ObjUp>>)}
GateOspfResults == {NoResult, Result(<<>>)}
GateDiffOptions == {opt \in DiffOptions : opt.host_filter = "" /\ opt.kind_filter = ""
                                          /\ ~opt.set_unordered}
InitGate == InitStore({SnapshotTables})
NextGate ==
    \/ Ingest(GateEnvs, GateOptions, GateBgpResults, GateOspfResults)
    \/ Diff(GateEnvs, GateDiffOptions)
    \/ Prune(GateEnvs)
SpecGate == InitGate /\ [][NextGate]_vars

\* SpecFault: the preflight passes; the snapshot tables exist under their
\* names and accept the INSERT statements of the snapshot or do not
FaultEnvs ==
    {env \in Envs : _preflight(env) = EXIT_OK /\ env.schema_sql = "ok" /\ env.schema_apply_ok}
InitFault == InitStore({SnapshotTables})
NextFault ==
    \/ Ingest(FaultEnvs, SnapOptions, GateBgpResults, GateOspfResults)
    \/ Diff(FaultEnvs, GateDiffOptions)
    \/ Prune(FaultEnvs)
SpecFault == InitFault /\ [][NextFault]_vars

(***************************************************************************)
(* The two parsers applied on their own to a list of harvested values.     *)
(* The values: the four kinds of JSON value that are not objects (the      *)
(* per-line pass of _iter_embedded_json yields them, lines 188-193), and   *)
(* objects whose peers or neighbors are well-formed, empty, or hold        *)
(* entries that are not objects.                                           *)
(***************************************************************************)
ParseObjects ==
    {JInt(7), JStr("x"), JNull, JList(<<>>),
     ObjUp, ObjNoHost, ObjEmptyPeers, ObjTwoPeers, ObjPeerNull, ObjPeerList, ObjPeerAndPeers,
     ObjOspf, ObjEmptyNeighbors, ObjTwoNeighbors, ObjNeighborStr}

\* the lists of at most MaxObjs values
MaxObjs == 2
ParseLists == UNION {[1..n -> ParseObjects] : n \in 0..MaxObjs}

\* a call of a parser that has not returned yet
ParseCalls ==
    [fn : {"parse_bgp_objects", "parse_ospf_objects"}, objs : ParseLists, collected_at : {1},
     strict : BOOLEAN, done : {FALSE}, ret : {JNull}]

InitParse ==
    /\ EmptyStore({{}})
    /\ last = NoInvocation
    /\ call \in ParseCalls

ParseBgp ==
    /\ call.fn = "parse_bgp_objects" /\ ~call.done
    /\ call' = [call EXCEPT !.done = TRUE,
                            !.ret = parse_bgp_objects(call.objs, call.collected_at, call.strict,
                                                      BuiltinAliases)]
    /\ UNCHANGED <<store, last>>

ParseOspf ==
    /\ call.fn = "parse_ospf_objects" /\ ~call.done
    /\ call' = [call EXCEPT !.done = TRUE,
                            !.ret = parse_ospf_objects(call.objs, call.collected_at, call.strict,
                                                       BuiltinAliases)]
    /\ UNCHANGED <<store, last>>

NextParse == ParseBgp \/ ParseOspf
SpecParse == InitParse /\ [][NextParse]_vars

(***************************************************************************)
(* The two passes of one ingest run and the merge of their summaries       *)
(* (lines 990-1008) applied on their own to two lists of harvested         *)
(* objects.                                                                *)
(***************************************************************************)
MergeBgpObjects == {ObjUp, ObjNoHost, ObjTwoPeers, ObjEmptyPeers, ObjPeerAndPeers}
MergeOspfObjects == {ObjOspf, ObjNoHost, ObjTwoNeighbors, ObjEmptyNeighbors, ObjNeighborStr}
MergeBgpLists == UNION {[1..n -> MergeBgpObjects] : n \in 0..MaxObjs}
MergeOspfLists == UNION {[1..n -> MergeOspfObjects] : n \in 0..MaxObjs}

MergeCalls ==
    [fn : {"merge"}, objs_bgp : MergeBgpLists, objs_ospf : MergeOspfLists, collected_at : {1},
     strict : BOOLEAN, done : {FALSE}, ret : {JNull}]

InitMerge ==
    /\ EmptyStore({{}})
    /\ last = NoInvocation
    /\ call \in MergeCalls

\* lines 991-1008
MergePasses ==
    /\ call.fn = "merge" /\ ~call.done
    /\ \E b \in {parse_bgp_objects(call.objs_bgp, call.collected_at, call.strict, BuiltinAliases)},
          o \in {parse_ospf_objects(call.objs_ospf, call.collected_at, call.strict, BuiltinAliases)} :
          call' = [call EXCEPT !.done = TRUE,
                      !.ret = [raised |-> b.raised \/ o.raised,
                               bgp_summary |-> b.summary,
                               ospf_summary |-> o.summary,
                               summaries |-> MergeSummaries(b.summary, o.summary,
                                                            call.collected_at)]]
    /\ UNCHANGED <<store, last>>

NextMerge == MergePasses
SpecMerge == InitMerge /\ [][NextMerge]_vars

(***************************************************************************)
(* write_sqlite applied on its own (lines 315-348, after the dry-run       *)
(* return) to a store whose routing_summary holds rows of earlier runs,    *)
(* a row of the sentinel host among them or not.                           *)
(***************************************************************************)
SummaryRow(host, collected_at, peers_total, peers_established, ospf_neighbors) ==
    <<host, collected_at, peers_total, peers_established, ospf_neighbors, "ok", "">>

\* the rows a store holds before the call: at most one per host
OldSummaryTables ==
    SUBSET {SummaryRow("r1", 1, 1, 1, 0), SummaryRow("r2", 1, 0, 0, 1),
            SummaryRow("unknown", 1, 1, 0, 0)}

\* the summaries passed in: a dict from hosts to their tuples
NewSummaries ==
    UNION {[hosts -> {2, 3}] : hosts \in SUBSET {"r1", "r2", "unknown"}}

SummariesOf(totals) ==
    [h \in DOMAIN totals |-> SummaryRow(h, 2, totals[h], totals[h] - 1, 0)]

\* the rows passed in: none, one, or one whose state is a JSON object
\* (sqlite3 cannot bind it)
WriteBgpRows ==
    {<<>>,
     <<<<"r1", JStr("10.0.0.1"), 65001, JStr("Established"), 0, 42, 2, "ansible-mcp">>>>,
     <<<<"r1", JStr("10.0.0.1"), 0, JDict(<<>>), 0, 0, 2, "ansible-mcp">>>>}

WriteCalls ==
    {[fn |-> "write_sqlite", bgp_rows |-> rows, ospf_rows |-> <<>>,
      summaries |-> SummariesOf(totals), done |-> FALSE, ret |-> JNull] :
        rows \in WriteBgpRows, totals \in NewSummaries}

InitWrite ==
    /\ tables = {}
    /\ routing_created = TRUE
    /\ routing_bgp_peer = {}
    /\ routing_ospf_neighbor = {}
    /\ routing_summary \in OldSummaryTables
    /\ raw_state = EmptyBag
    /\ normalized_state = <<>>
    /\ schema_meta = EmptyBag
    /\ summary_diff = EmptyBag
    /\ last = NoInvocation
    /\ call \in WriteCalls

\* the call returns after the commit of line 345, or raises before it and
\* leaves the tables as they were; ret.before is routing_summary at the call
WriteSqlite ==
    /\ call.fn = "write_sqlite" /\ ~call.done
    /\ \E w \in {write_sqlite(call.bgp_rows, call.ospf_rows, call.summaries)} :
          /\ call' = [call EXCEPT !.done = TRUE,
                                  !.ret = [raised |-> w.raised, before |-> routing_summary]]
          /\ routing_created' = TRUE
          /\ IF w.raised
             THEN UNCHANGED <<routing_bgp_peer, routing_ospf_neighbor, routing_summary>>
             ELSE /\ routing_bgp_peer' = w.bgp
                  /\ routing_ospf_neighbor' = w.ospf
                  /\ routing_summary' = w.summary
    /\ UNCHANGED <<tables, raw_state, normalized_state, schema_meta, summary_diff, last>>

NextWrite == WriteSqlite
SpecWrite == InitWrite /\ [][NextWrite]_vars

(***************************************************************************)
(* SpecVerify: ingest runs with --snapshot and verify runs, on a store     *)
(* with or without the snapshot tables.  The store is new, or it was left  *)
(* by an earlier release that wrote a summary for the sentinel host (the   *)
(* row line 334 deletes) next to the snapshot of one peer.                 *)
(***************************************************************************)
VerifyOptions == {opt \in IngestOptions : ~opt.strict /\ opt.snapshot /\ ~opt.ensure_schema /\ ~opt.want_meta}

LeftRaw == <<1, "unknown", "bgp", json_dumps(ObjNoHost), 1>>
LeftNorm ==
    <<1, "unknown", "bgp_peer", JStr("10.0.0.1"),
      json_dumps(JDict(<<<<"peer_ip", JStr("10.0.0.1")>>, <<"remoteAs", JInt(65001)>>,
                         <<"state", JStr("Established")>>, <<"pfxRcd", JInt(42)>>>>)), 1>>

InitVerify ==
    /\ last = NoInvocation
    /\ call = NoCall
    /\ routing_bgp_peer = {}
    /\ routing_ospf_neighbor = {}
    /\ schema_meta = EmptyBag
    /\ summary_diff = EmptyBag
    /\ \/ EmptyStore({SnapshotTables, {}})
       \/ /\ tables = SnapshotTables
          /\ routing_created = TRUE
          /\ routing_summary = {SummaryRow("unknown", 1, 1, 1, 0)}
          /\ raw_state = SetToBag({LeftRaw})
          /\ normalized_state = <<LeftNorm>>

NextVerify ==
    \/ Ingest(MainEnvs, VerifyOptions, VerifyBgpResults, SnapOspfResults)
    \/ Verify(MainEnvs)
SpecVerify == InitVerify /\ [][NextVerify]_vars

(***************************************************************************)
(* Prune mode statement by statement (lines 934-967).  The DELETE          *)
(* statements run in one transaction of the run's connection: the store    *)
(* variables are what that connection sees, and call holds the committed   *)
(* tables, which every other connection sees until the commit of line 958  *)
(* and which come back when an exception ends the run before it (lines     *)
(* 964-967: the connection is dropped without a commit).                   *)
(***************************************************************************)
\* an order in which raw_state goes first
PruneOrder_RawFirst == <<"raw_state", "normalized_state", "summary_diff", "schema_meta">>

\* the order of the four statements (lines 936, 943, 948, 953)
PruneOrder == <<"summary_diff", "normalized_state", "raw_state", "schema_meta">>

SnapshotStore == <<summary_diff, normalized_state, raw_state, schema_meta>>

\* the run reaches line 934: past the preflight, with versions to delete and
\* without --dry-run
PruneDeletes(env, keep, dry_run) ==
    /\ _preflight(env) = EXIT_OK
    /\ DelList(StoredVersions, keep) # {}
    /\ ~dry_run

PruneStart(envs) ==
    /\ call = NoCall
    /\ \E env \in envs, keep \in KeepValues, dry_run \in BOOLEAN :
          IF PruneDeletes(env, keep, dry_run)
          THEN /\ call' = [fn |-> "prune", pc |-> 1, env |-> env,
                           del |-> DelList(StoredVersions, keep), committed |-> SnapshotStore]
               /\ UNCHANGED <<store, last>>
          ELSE PruneRun(env, keep, dry_run) /\ UNCHANGED call

\* the statement at position call.pc
PruneDelete ==
    /\ call.fn = "prune" /\ call.pc <= Len(PruneOrder)
    /\ call' = [call EXCEPT !.pc = call.pc + 1]
    /\ \E t \in {PruneOrder[call.pc]} :
          /\ summary_diff' = IF t = "summary_diff" THEN PruneDiff(call.del) ELSE summary_diff
          /\ normalized_state' = IF t = "normalized_state" THEN PruneNormalized(call.del)
                                 ELSE normalized_state
          /\ raw_state' = IF t = "raw_state" THEN PruneRaw(call.del) ELSE raw_state
          /\ schema_meta' = IF t = "schema_meta" THEN PruneMeta(call.del) ELSE schema_meta
    /\ UNCHANGED <<tables, routing_created, routing_bgp_peer, routing_ospf_neighbor,
                   routing_summary, last>>

\* conn.commit() and the report (lines 958-963)
PruneCommit ==
    /\ call.fn = "prune" /\ call.pc = Len(PruneOrder) + 1
    /\ call' = NoCall
    /\ last' = Report(EXIT_OK, "prune.ok", FALSE, call.env, NotCalled, "")
    /\ UNCHANGED store

\* a statement raises (lines 964-967): nothing was committed
PruneError ==
    /\ call.fn = "prune" /\ call.pc <= Len(PruneOrder)
    /\ call' = NoCall
    /\ last' = Report(EXIT_MCP_FAIL, "prune.error", FALSE, call.env, NotCalled, "")
    /\ summary_diff' = call.committed[1]
    /\ normalized_state' = call.committed[2]
    /\ raw_state' = call.committed[3]
    /\ schema_meta' = call.committed[4]
    /\ UNCHANGED <<tables, routing_created, routing_bgp_peer, routing_ospf_neighbor,
                   routing_summary>>

\* SpecPruneSteps: snapshot ingests and diffs between prune runs
StepBgpResults == {NoResult, Result(<<ObjUp>>), Result(<<ObjDown>>)}
InitPruneSteps == InitStore({SnapshotTables})
NextPruneSteps ==
    \/ call = NoCall /\ Ingest(MainEnvs, SnapOptions, StepBgpResults, SnapOspfResults)
    \/ call = NoCall /\ Diff(MainEnvs, SnapDiffOptions)
    \/ PruneStart(MainEnvs)
    \/ PruneDelete
    \/ PruneCommit
    \/ PruneError
SpecPruneSteps == InitPruneSteps /\ [][NextPruneSteps]_vars

(***************************************************************************)
(* The harvester on text (lines 168-232).  A text is a sequence of         *)
(* characters of a small alphabet: the two braces, a digit, a letter and   *)
(* the newline.  json.loads is computed as Python computes it on such      *)
(* texts: surrounding whitespace is skipped, a run of digits is a number,  *)
(* a pair of braces around whitespace is the empty object, anything else   *)
(* raises.  A function that can raise returns [raised, objs].              *)
(***************************************************************************)
MaxText == 4
Alphabet == {"{", "}", "1", "x", "\n"}
Whitespace == {"\n"}
Texts == UNION {[1..n -> Alphabet] : n \in 0..MaxText}

\* the text between the whitespace json.loads skips at both ends
SkipWhitespace(s) ==
    LET solid == {i \in DOMAIN s : s[i] \notin Whitespace}
    IN  IF solid = {} THEN <<>>
        ELSE SubSeq(s, CHOOSE i \in solid : \A j \in solid : i <= j,
                       CHOOSE i \in solid : \A j \in solid : j <= i)

RECURSIVE Ones(_)
Ones(n) == IF n = 0 THEN 0 ELSE 10 * Ones(n - 1) + 1

json_loads_text(s) ==
    CHOOSE r \in
      {IF t # <<>> /\ \A i \in DOMAIN t : t[i] = "1"
       THEN [ok |-> TRUE, value |-> JInt(Ones(Len(t)))]
       ELSE IF /\ Len(t) >= 2 /\ t[1] = "{" /\ t[Len(t)] = "}"
               /\ \A i \in 2..(Len(t) - 1) : t[i] \in Whitespace
       THEN [ok |-> TRUE, value |-> JDict(<<>>)]
       ELSE [ok |-> FALSE, value |-> JNull] : t \in {SkipWhitespace(s)}} : TRUE

\* a variant in which the exception of json.loads is not caught
TryLoads_Uncaught(s) ==
    IF json_loads_text(s).ok THEN [raised |-> FALSE, objs |-> <<json_loads_text(s).value>>]
    ELSE [raised |-> TRUE, objs |-> <<>>]

\* try: obj = json.loads(s); yield obj / except Exception: pass
\* (lines 181-185 and 188-193)
TryLoads(s) ==
    IF json_loads_text(s).ok THEN [raised |-> FALSE, objs |-> <<json_loads_text(s).value>>]
    ELSE [raised |-> FALSE, objs |-> <<>>]

\* what has been yielded when the first of two steps raises, or both run
Then(a, b) ==
    IF a.raised THEN a ELSE [raised |-> b.raised, objs |-> a.objs \o b.objs]

Nothing == [raised |-> FALSE, objs |-> <<>>]

\* the loop of lines 171-186 from position i on; start = 0 stands for None
RECURSIVE BraceScan(_, _, _, _)
BraceScan(text, i, stack, start) ==
    IF i > Len(text) THEN Nothing
    ELSE IF text[i] = "{"
    THEN BraceScan(text, i + 1, stack + 1, IF stack = 0 THEN i ELSE start)
    ELSE IF text[i] = "}" /\ stack > 0
    THEN IF stack - 1 = 0 /\ start # 0
         THEN Then(TryLoads(SubSeq(text, start, i)), BraceScan(text, i + 1, 0, 0))
         ELSE BraceScan(text, i + 1, stack - 1, start)
    ELSE BraceScan(text, i + 1, stack, start)

\* str.splitlines
RECURSIVE splitlines(_)
splitlines(text) ==
    IF text = <<>> THEN <<>>
    ELSE LET nl == {i \in DOMAIN text : text[i] = "\n"}
         IN  IF nl = {} THEN <<text>>
             ELSE LET k == CHOOSE i \in nl : \A j \in nl : i <= j
                  IN  <<SubSeq(text, 1, k - 1)>> \o splitlines(SubSeq(text, k + 1, Len(text)))

\* the loop of lines 187-192 over the lines from the i-th on
RECURSIVE LineScan(_, _)
LineScan(lines, i) ==
    IF i > Len(lines) THEN Nothing
    ELSE Then(TryLoads(lines[i]), LineScan(lines, i + 1))

_iter_embedded_json(text) ==
    IF text = <<>> THEN Nothing
    ELSE Then(BraceScan(text, 1, 0, 0), LineScan(splitlines(text), 1))

\* lines 197-205, msg a string: the whole text first, the embedded values
\* when it does not parse
HarvestMsg(msglike) ==
    IF json_loads_text(msglike).ok THEN [raised |-> FALSE, objs |-> <<json_loads_text(msglike).value>>]
    ELSE _iter_embedded_json(msglike)

\* lines 218-229: no value of these texts is an object with a "msg" member,
\* so every value is appended as it is
Unwrap(h) == [raised |-> h.raised, objs |-> [i \in DOMAIN h.objs |-> h.objs[i]]]

\* _extract_result_objects({"msg": text})
ExtractMsg(text) == Unwrap(HarvestMsg(text))
\* _extract_result_objects({"ansible": {"stdout": text}})
ExtractStdout(text) == Unwrap(_iter_embedded_json(text))
\* _extract_result_objects({"ansible": {"stdout": [text, text]}})
ExtractStdoutList(text) == Unwrap(Then(_iter_embedded_json(text), _iter_embedded_json(text)))

HarvestCalls ==
    [fn : {"_iter_embedded_json", "extract.msg", "extract.stdout", "extract.stdout_list"},
     text : Texts, done : {FALSE}, ret : {Nothing}]

InitHarvest ==
    /\ EmptyStore({{}})
    /\ last = NoInvocation
    /\ call \in HarvestCalls

IterEmbeddedJson ==
    /\ call.fn = "_iter_embedded_json" /\ ~call.done
    /\ call' = [call EXCEPT !.done = TRUE, !.ret = _iter_embedded_json(call.text)]
    /\ UNCHANGED <<store, last>>

ExtractResultObjects ==
    /\ call.fn \in {"extract.msg", "extract.stdout", "extract.stdout_list"} /\ ~call.done
    /\ call' = [call EXCEPT !.done = TRUE,
                            !.ret = CASE call.fn = "extract.msg" -> ExtractMsg(call.text)
                                      [] call.fn = "extract.stdout" -> ExtractStdout(call.text)
                                      [] OTHER -> ExtractStdoutList(call.text)]
    /\ UNCHANGED <<store, last>>

NextHarvest == IterEmbeddedJson \/ ExtractResultObjects
SpecHarvest == InitHarvest /\ [][NextHarvest]_vars

(***************************************************************************)
(* _compute_summary_diff applied on its own to a store that holds one key  *)
(* in two versions: the value a in version 1 and the value b in version 2, *)
(* each stored as its JSON text (line 408).  The values are arrays of two  *)
(* numbers with repeats, objects and arrays that hold such arrays, and     *)
(* values of other types.                                                  *)
(***************************************************************************)
MaxArr == 3
ArrElems == {JInt(1), JInt(2)}
ArraysUpTo(n) == {JList(l) : l \in UNION {[1..m -> ArrElems] : m \in 0..n}}
CompareInner ==
    {JList(<<JInt(1), JInt(2)>>), JList(<<JInt(2), JInt(1)>>), JList(<<JInt(2)>>),
     JDict(<< <<"f", JList(<<JInt(1), JInt(2)>>)>> >>),
     JDict(<< <<"f", JList(<<JInt(2), JInt(1)>>)>> >>), JInt(1)}
CompareValues ==
    ArraysUpTo(MaxArr)
        \cup {JDict(<< <<"f", x>> >>) : x \in ArraysUpTo(2)}
        \cup {JList(<<x, y>>) : x \in CompareInner, y \in CompareInner}
        \cup {JInt(1), JStr("a"), JNull}

CompareCalls ==
    [fn : {"_compute_summary_diff"}, a : CompareValues, b : CompareValues,
     set_unordered : BOOLEAN, done : {FALSE}, ret : {JNull}]

\* the connection of such a store
CompareConn(a, b) ==
    [tables |-> SnapshotTables,
     normalized_state |-> << <<1, "r1", "bgp_peer", "k", json_dumps(a), 1>>,
                             <<2, "r1", "bgp_peer", "k", json_dumps(b), 2>> >>,
     summary_diff |-> EmptyBag]

InitCompare ==
    /\ EmptyStore({{}})
    /\ last = NoInvocation
    /\ call \in CompareCalls

\* ret: the counts returned and the summary_diff rows stored
ComputeSummaryDiff ==
    /\ call.fn = "_compute_summary_diff" /\ ~call.done
    /\ \E res \in {_compute_summary_diff(CompareConn(call.a, call.b), 1, 2, "", "",
                                         call.set_unordered)} :
          call' = [call EXCEPT !.done = TRUE,
                               !.ret = [counts |-> res.counts, rows |-> BagToSet(res.diff)]]
    /\ UNCHANGED <<store, last>>

NextCompare == ComputeSummaryDiff
SpecCompare == InitCompare /\ [][NextCompare]_vars

(***************************************************************************)
(* The alias resolver applied on its own: _load_aliases on an alias file   *)
(* or none, then _get_with_aliases on a peer record for a canonical field  *)
(* with the section's aliases (as lines 569 and 598 do).                   *)
(***************************************************************************)
FileOf(y) == [exists |-> TRUE, y |-> y]
FieldList(keys) == JList([i \in DOMAIN keys |-> JStr(keys[i])])

AliasFiles ==
    {[exists |-> FALSE, y |-> JNull],
     FileOf([t |-> "invalid"]),
     FileOf(JList(<<>>)),
     FileOf(JDict(<< <<"bgp_peer", JDict(<< <<"state", FieldList(<<"status", "state">>)>> >>)>> >>)),
     FileOf(JDict(<< <<"bgp_peer", JDict(<< <<"state", FieldList(<<>>)>> >>)>> >>)),
     FileOf(JDict(<< <<"bgp_peer", JDict(<< <<"state", JStr("status")>>,
                                            <<"vrf", FieldList(<<"status">>)>> >>)>> >>)),
     FileOf(JDict(<< <<"ospf_neighbor", JDict(<< <<"state", FieldList(<<"status">>)>> >>)>>,
                     <<"bgp_peer", JStr("state")>> >>)),
     FileOf(JDict(<< <<"other", JDict(<< <<"state", FieldList(<<"status">>)>> >>)>> >>))}

\* a member of a record: absent, null, empty, or the string v
MemberValues(v) == {<<>>, <<JNull>>, <<JStr("")>>, <<JStr(v)>>}
AliasRecords ==
    {JDict((IF a = <<>> THEN <<>> ELSE << <<"state", a[1]>> >>)
           \o (IF b = <<>> THEN <<>> ELSE << <<"peerState", b[1]>> >>)
           \o (IF c = <<>> THEN <<>> ELSE << <<"status", c[1]>> >>)) :
        a \in MemberValues("Idle"), b \in MemberValues("Active"), c \in MemberValues("Up")}

AliasCalls ==
    [fn : {"_get_with_aliases"}, file : AliasFiles, src : AliasRecords,
     canon : {"state", "vrf", "status", "remoteAs"}, done : {FALSE}, ret : {JNull}]

InitAlias ==
    /\ EmptyStore({{}})
    /\ last = NoInvocation
    /\ call \in AliasCalls

\* ret: the table _load_aliases returned and what the resolver returned
GetWithAliases ==
    /\ call.fn = "_get_with_aliases" /\ ~call.done
    /\ \E ALIASES \in {_load_aliases(call.file)} :
          call' = [call EXCEPT
                     !.done = TRUE,
                     !.ret = [aliases |-> ALIASES,
                              got |-> _get_with_aliases(call.src,
                                                        SectionAliases(ALIASES, "bgp_peer"),
                                                        call.canon, JStr("-"))]]
    /\ UNCHANGED <<store, last>>

NextAlias == GetWithAliases
SpecAlias == InitAlias /\ [][NextAlias]_vars

(***************************************************************************)
(* Properties.                                                             *)
(***************************************************************************)
\* the rows of a summary_diff table for one pair of versions
PairRows(diff, base_version, new_version) ==
    [r \in {x \in DOMAIN diff : x[1] = base_version /\ x[2] = new_version} |-> diff[r]]

\* the (host, kind, key) triples normalized_state holds for a version
VersionKeys(version) ==
    {<<normalized_state[i][2], normalized_state[i][3], normalized_state[i][4]>> :
        i \in {j \in DOMAIN normalized_state : normalized_state[j][1] = version}}

\* the value normalized_state holds for a key of a version (the row written
\* last, when the key has several rows)
ValueIn(version, key) ==
    LET mine == {i \in DOMAIN normalized_state :
                    /\ normalized_state[i][1] = version
                    /\ <<normalized_state[i][2], normalized_state[i][3],
                         normalized_state[i][4]>> = key}
    IN  normalized_state[CHOOSE i \in mine : \A j \in mine : j <= i][5]

\* two decoded JSON values are structurally identical
RECURSIVE SameJson(_, _)
SameJson(a, b) ==
    IF a.t # b.t THEN FALSE
    ELSE IF a.t = "dict"
    THEN /\ {a.d[i][1] : i \in DOMAIN a.d} = {b.d[i][1] : i \in DOMAIN b.d}
         /\ \A i \in DOMAIN a.d : SameJson(a.d[i][2], Get(b, a.d[i][1]))
    ELSE IF a.t = "list"
    THEN /\ Len(a.l) = Len(b.l)
         /\ \A i \in DOMAIN a.l : SameJson(a.l[i], b.l[i])
    ELSE a = b

\* the rows the diff of two versions is to hold
ExpectedDiffRows(base_version, new_version) ==
    LET kb == VersionKeys(base_version)
        kn == VersionKeys(new_version)
    IN  {<<base_version, new_version, k[1], k[2], k[3], "added", SqlNull, ValueIn(new_version, k)>> :
            k \in kn \ kb}
        \cup
        {<<base_version, new_version, k[1], k[2], k[3], "removed", ValueIn(base_version, k), SqlNull>> :
            k \in kb \ kn}
        \cup
        {<<base_version, new_version, k[1], k[2], k[3],
           IF json_loads(ValueIn(base_version, k)).t # json_loads(ValueIn(new_version, k)).t
           THEN "type" ELSE "changed",
           ValueIn(base_version, k), ValueIn(new_version, k)>> :
            k \in {x \in kb \cap kn : ~SameJson(json_loads(ValueIn(base_version, x)),
                                                json_loads(ValueIn(new_version, x)))}}

\* C1: in every reachable store and for every pair (base, new), the rows of
\* the pair that _compute_summary_diff(base, new) with no filters leaves in
\* summary_diff are exactly: one 'added' row per key only in new, one
\* 'removed' row per key only in base, one 'changed' or 'type' row per key of
\* both whose decoded values differ, and no row for a key with identical values.
C1_DiffRowsExact ==
    \A base \in Versions, new \in Versions :
        PairRows(_compute_summary_diff(Conn, base, new, "", "", FALSE).diff, base, new)
            = SetToBag(ExpectedDiffRows(base, new))

\* a diff run has stored a 'changed' row, and the rows of its pair are the expected ones
C1_Witness ==
    /\ last.event = "diff.done"
    /\ \E base \in Versions, new \in Versions :
          /\ \E r \in DOMAIN summary_diff : r[1] = base /\ r[2] = new /\ r[6] = "changed"
          /\ PairRows(summary_diff, base, new) = SetToBag(ExpectedDiffRows(base, new))

\* C2: in every reachable store, for every pair and every choice of filters,
\* running _compute_summary_diff a second time right after the first leaves
\* the same rows for the pair and returns the same counts.
C2_DiffIdempotent ==
    \A base \in Versions, new \in Versions, opt \in DiffOptions :
        LET once == _compute_summary_diff(Conn, base, new, opt.host_filter, opt.kind_filter,
                                          opt.set_unordered)
            twice == _compute_summary_diff([Conn EXCEPT !.summary_diff = once.diff], base, new,
                                           opt.host_filter, opt.kind_filter, opt.set_unordered)
        IN  /\ PairRows(twice.diff, base, new) = PairRows(once.diff, base, new)
            /\ twice.counts = once.counts

\* a diff run has stored rows for a pair, and one more run of the same diff
\* would leave the table as it is
C2_Witness ==
    /\ last.event = "diff.done"
    /\ \E base \in Versions, new \in Versions :
          /\ PairRows(summary_diff, base, new) # EmptyBag
          /\ _compute_summary_diff(Conn, base, new, "", "", FALSE).diff = summary_diff

\* C3: no row of routing_bgp_peer, routing_ospf_neighbor or routing_summary
\* has the host "unknown".
C3_NoUnknownHost ==
    \A r \in routing_bgp_peer \cup routing_ospf_neighbor \cup routing_summary : r[1] # "unknown"

\* C4: routing_bgp_peer holds at most one row per (host, peer_ip) and
\* routing_ospf_neighbor at most one row per (host, neighbor_id).
C4_OneRowPerNaturalKey ==
    /\ \A r1 \in routing_bgp_peer, r2 \in routing_bgp_peer :
          (r1[1] = r2[1] /\ r1[2] = r2[2]) => r1 = r2
    /\ \A r1 \in routing_ospf_neighbor, r2 \in routing_ospf_neighbor :
          (r1[1] = r2[1] /\ r1[2] = r2[2]) => r1 = r2

\* C5: normalized_state holds at most one row per (version, host, kind, key).
C5_NormalizedKeyUnique ==
    \A i \in DOMAIN normalized_state, j \in DOMAIN normalized_state :
        (\A c \in 1..4 : normalized_state[i][c] = normalized_state[j][c]) => i = j

\* C6: every version that has a normalized_state row has a raw_state row.
C6_NoOrphanNormalized ==
    \A i \in DOMAIN normalized_state :
        \E r \in DOMAIN raw_state : r[1] = normalized_state[i][1]

\* a prune has deleted a version and normalized rows of a kept version remain
C6_Witness ==
    /\ last.event = "prune.ok"
    /\ Len(normalized_state) > 0

\* the k greatest elements of a set of versions
Greatest(S, k) ==
    CHOOSE T \in SUBSET S :
        /\ Cardinality(T) = k
        /\ \A t \in T, u \in S \ T : t > u

Min(a, b) == IF a <= b THEN a ELSE b

\* C7: a prune without --dry-run, with keep = N >= 0, over a store holding n
\* versions in raw_state and normalized_state leaves exactly the min(N, n)
\* greatest versions in the two tables; when n <= N it deletes nothing and
\* reports a no-op; when N = 0 no version remains.
C7_PruneKeepsGreatest ==
    [][ (last'.event \in {"prune.empty", "prune.nodel", "prune.ok"} /\ ~last'.dry_run) =>
        \A env \in Envs, keep \in KeepValues :
            (keep >= 0 /\ PruneRun(env, keep, FALSE)) =>
                LET n == Cardinality(StoredVersions)
                IN  /\ StoredVersions' = Greatest(StoredVersions, Min(keep, n))
                    /\ n <= keep => (UNCHANGED store /\ last'.event \in {"prune.empty", "prune.nodel"})
                    /\ keep = 0 => StoredVersions' = {} ]_vars

\* a prune has deleted the older version and kept the greatest one
C7_Witness ==
    /\ last.event = "prune.ok"
    /\ StoredVersions = {MaxVersion}

\* C8: after a prune without --dry-run has completed, every version a
\* summary_diff row refers to (as base or as new) and the version of every
\* schema_meta row is one of the versions left in raw_state and normalized_state.
C8_PruneConsistent ==
    (last.event \in {"prune.empty", "prune.nodel", "prune.ok"} /\ ~last.dry_run) =>
        /\ \A r \in DOMAIN summary_diff : r[1] \in StoredVersions /\ r[2] \in StoredVersions
        /\ \A m \in DOMAIN schema_meta : m[1] \in StoredVersions

C10_NoJsonExit ==
    [][ \A env \in Envs, dry_run \in BOOLEAN, opt \in IngestOptions, res_bgp \in BgpResults,
           res_ospf \in OspfResults, now \in Versions :
            ( /\ _preflight(env) = EXIT_OK
              /\ ~(res_bgp.none /\ res_ospf.none)
              /\ _extract_result_objects(res_bgp) = <<>>
              /\ _extract_result_objects(res_ospf) = <<>>
              /\ IngestRun(env, dry_run, opt.ensure_schema, opt.strict, opt.snapshot,
                           opt.want_meta, res_bgp, res_ospf, now) )
            => (last'.rc = EXIT_NO_JSON /\ UNCHANGED store) ]_vars

\* C11: a run given --ensure-schema with a schema file that exists, in an
\* environment where applying the file fails, ends with EXIT_SCHEMA_MISSING.
C11_EnsureSchemaFailure ==
    (last.schema_step = "ensure_schema.nop" /\ ~last.env.schema_apply_ok)
        => last.rc = EXIT_SCHEMA_MISSING

\* C12: parse_bgp_objects and parse_ospf_objects return normally for every
\* list of harvested JSON values, values that are not objects and peer or
\* neighbor entries that are not objects included.
C12_MalformedNeverFatal ==
    (call.fn \in {"parse_bgp_objects", "parse_ospf_objects"} /\ call.done) => ~call.ret.raised

\* C13: an ingest run whose two playbook calls both return None ends with
\* EXIT_MCP_FAIL and writes no table of the store; a run for which at least
\* one call returns a result goes on past the check (it does not end as
\* mcp.empty).
C13_UpstreamUnavailable ==
    [][ /\ (last'.mcp.called /\ ~last'.mcp.bgp /\ ~last'.mcp.ospf)
            => (last'.rc = EXIT_MCP_FAIL /\ UNCHANGED store)
        /\ (last'.mcp.bgp \/ last'.mcp.ospf)
            => last'.event \in {"ingest.ok", "ingest.error"} ]_vars

\* both calls returned None in a run against a store that holds rows, and
\* the run ended with EXIT_MCP_FAIL
C13_Witness ==
    /\ last.mcp.called /\ ~last.mcp.bgp /\ ~last.mcp.ospf
    /\ last.rc = EXIT_MCP_FAIL
    /\ routing_bgp_peer # {}
    /\ BagSize(raw_state) > 0

\* C14: an invocation whose store directory is missing or unwritable, or
\* whose --schema-sql file is missing or unreadable, ends with
\* EXIT_PREFLIGHT_FAIL without a playbook call and without a write to the
\* store; and every step that writes to the store belongs to an invocation
\* whose preflight checks all passed.
C14_PreflightGate ==
    [][ /\ (~last'.env.db_dir_ok \/ last'.env.schema_sql = "missing")
            => (last'.rc = EXIT_PREFLIGHT_FAIL /\ ~last'.mcp.called /\ UNCHANGED store)
        /\ ~(UNCHANGED store)
            => (last'.env.db_dir_ok /\ last'.env.schema_sql # "missing" /\ last'.env.mcp_health)
      ]_vars

\* an invocation against a store that holds rows, with a schema file that
\* is missing, has ended with EXIT_PREFLIGHT_FAIL
C14_Witness ==
    /\ last.env.db_dir_ok /\ last.env.schema_sql = "missing"
    /\ last.rc = EXIT_PREFLIGHT_FAIL
    /\ routing_summary # {}
    /\ Len(normalized_state) > 0

\* C15: a --diff invocation (with --base and --new) or a --prune invocation
\* against a store whose directory is writable (and whose schema file, if
\* given, exists) ends with EXIT_OK, whether or not the MCP health check
\* succeeds.
C15_DiffPruneIndependent ==
    [][ (last'.env.db_dir_ok /\ last'.env.schema_sql # "missing") =>
        \A dry_run \in BOOLEAN :
            ( \/ \E base \in Versions, new \in Versions, opt \in DiffOptions :
                    DiffRun(last'.env, dry_run, base, new, opt.host_filter, opt.kind_filter,
                            opt.set_unordered)
              \/ \E keep \in KeepValues : PruneRun(last'.env, keep, dry_run) )
            => last'.rc = EXIT_OK ]_vars

\* C16: an ingest invocation that returns a non-zero code has not committed
\* current-state or summary rows without the snapshot rows it was asked to
\* write: if it changed a routing table, it also wrote its raw_state and
\* normalized_state rows.
C16_NoPartialState ==
    [][ (last'.mcp.called /\ last'.rc # EXIT_OK) =>
            \/ UNCHANGED <<routing_bgp_peer, routing_ospf_neighbor, routing_summary>>
            \/ (raw_state' # raw_state /\ normalized_state' # normalized_state) ]_vars

\* C17: after a write_sqlite call (not a dry run) has returned,
\* routing_summary holds no row of host "unknown", whatever it held before
\* and whether or not the summaries passed in hold the sentinel; and for
\* every other host of the summaries passed in it holds exactly one row,
\* the tuple passed in.
C17_WriteSqliteSummary ==
    (call.fn = "write_sqlite" /\ call.done /\ ~call.ret.raised) =>
        /\ \A r \in routing_summary : r[1] # "unknown"
        /\ \A h \in DOMAIN call.summaries \ {"unknown"} :
              {r \in routing_summary : r[1] = h} = {call.summaries[h]}

\* a call has returned that was given the sentinel and another host, on a
\* table that held a row of the sentinel and an older row of that host
C17_Witness ==
    /\ call.fn = "write_sqlite" /\ call.done /\ ~call.ret.raised
    /\ {"unknown", "r1"} \subseteq DOMAIN call.summaries
    /\ \E r \in call.ret.before : r[1] = "unknown"
    /\ \E r \in call.ret.before : r[1] = "r1" /\ r # call.summaries["r1"]
    /\ call.summaries["r1"] \in routing_summary

\* a text contains parseable JSON when json.loads accepts one of its
\* pieces (the whole text, a line, a block of braces, ...)
ContainsJson(text) ==
    \E i \in DOMAIN text, j \in DOMAIN text :
        i <= j /\ json_loads_text(SubSeq(text, i, j)).ok

HarvesterFns == {"_iter_embedded_json", "extract.msg", "extract.stdout", "extract.stdout_list"}

\* C18: for every text, _iter_embedded_json and _extract_result_objects over
\* it (the text as msg, as stdout, as the chunks of a stdout list) return
\* without raising; for the empty text and for a text no piece of which is
\* parseable JSON, unbalanced braces included, they return the empty
\* sequence.
C18_HarvesterTotal ==
    (call.fn \in HarvesterFns /\ call.done) =>
        /\ ~call.ret.raised
        /\ (call.text = <<>> \/ ~ContainsJson(call.text)) => call.ret.objs = <<>>

\* the harvester has returned empty on a text with an opened brace that is
\* never closed and a line that is not JSON
C18_Witness ==
    /\ call.fn = "extract.stdout" /\ call.done /\ ~call.ret.raised
    /\ call.text = <<"x", "\n", "{", "x">>
    /\ ~ContainsJson(call.text)
    /\ call.ret.objs = <<>>

\* the rows of one host among the rows a parser returned, in order
RowsOfHost(rows, host) ==
    LET OfHost(r) == r[1] = host IN SelectSeq(rows, OfHost)

\* the only object of its host in the list (a later object of the same host
\* assigns the host's summary again)
OnlyOfHost(objs, i) ==
    \A j \in DOMAIN objs \ {i} :
        IsDict(objs[j]) => _pick_host(objs[j], "unknown") # _pick_host(objs[i], "unknown")

\* an integer column: the member's value through _as_int, 0 when the member
\* is absent, null or empty
IntColumn(p, k) ==
    _as_int(IF Has(p, k) /\ Get(p, k) \notin {JNull, JStr("")} THEN Get(p, k) ELSE JInt(0))

\* an object with a resolvable host whose bgp.peers is a dict of peer
\* objects, and which is not itself a flat peer entry (that shape is taken
\* first, lines 568-579)
HasPeerDict(o) ==
    /\ IsDict(o) /\ _pick_host(o, "unknown") # "unknown"
    /\ ~BgpLike(o)
    /\ IsDict(Get(o, "bgp")) /\ IsDict(Get(Get(o, "bgp"), "peers"))
    /\ \A k \in 1..Len(Get(Get(o, "bgp"), "peers").d) : IsDict(Get(Get(o, "bgp"), "peers").d[k][2])

\* the rows the claim asks for: one per peer key, in the order of the keys
PeerDictRows(o, collected_at) ==
    LET peers == Get(Get(o, "bgp"), "peers").d
    IN  [k \in 1..Len(peers) |->
            <<_pick_host(o, "unknown"), JStr(peers[k][1]), IntColumn(peers[k][2], "remoteAs"),
              Get(peers[k][2], "state"), 0, IntColumn(peers[k][2], "pfxRcd"),
              collected_at, "ansible-mcp">>]

PeerDictEstablished(o) ==
    LET peers == Get(Get(o, "bgp"), "peers").d
    IN  Cardinality({k \in 1..Len(peers) :
            Get(peers[k][2], "state") \in {JStr("Established"), JStr("OK"), JStr("established")}})

\* C19: when parse_bgp_objects has returned, for every object of the list
\* with a resolvable host whose bgp.peers is a dict of peers (the object the
\* only one of its host, and not itself a flat peer entry), the rows of that
\* host are exactly one row <<host, peer_ip, remoteAs, state, 0, pfxRcd,
\* collected_at, source>> per peer key, and the host's summary has
\* peers_total = the number of peers and peers_established = the number of
\* peers in an established state; an empty dict gives no row and a summary
\* with both counts 0.
C19_BgpPeerDict ==
    (call.fn = "parse_bgp_objects" /\ call.done /\ ~call.ret.raised) =>
        \A i \in DOMAIN call.objs :
            (HasPeerDict(call.objs[i]) /\ OnlyOfHost(call.objs, i)) =>
                \E host \in {_pick_host(call.objs[i], "unknown")} :
                    /\ RowsOfHost(call.ret.rows, host) = PeerDictRows(call.objs[i], call.collected_at)
                    /\ host \in DOMAIN call.ret.summary
                    /\ call.ret.summary[host] =
                          <<host, call.collected_at,
                            Len(Get(Get(call.objs[i], "bgp"), "peers").d),
                            PeerDictEstablished(call.objs[i]), 0, "ok", "">>

\* a call on a host with two peers, one of them established, and a host
\* with one has returned three rows and the two summaries
C19_Witness ==
    /\ call.fn = "parse_bgp_objects" /\ call.done /\ ~call.ret.raised
    /\ call.objs = <<ObjTwoPeers, ObjUp>>
    /\ Len(call.ret.rows) = 3
    /\ call.ret.summary["r2"] = <<"r2", call.collected_at, 2, 1, 0, "ok", "">>
    /\ call.ret.summary["r1"] = <<"r1", call.collected_at, 1, 1, 0, "ok", "">>

\* an object with a resolvable host whose ospf.neighbors is a list of
\* neighbor objects, and which is not itself a flat neighbor entry (that
\* shape is taken first, lines 630-640)
HasNeighborList(o) ==
    /\ IsDict(o) /\ _pick_host(o, "unknown") # "unknown"
    /\ ~OspfLike(o)
    /\ IsDict(Get(o, "ospf")) /\ IsList(Get(Get(o, "ospf"), "neighbors"))
    /\ \A k \in 1..Len(Get(Get(o, "ospf"), "neighbors").l) : IsDict(Get(Get(o, "ospf"), "neighbors").l[k])

\* the rows the claim asks for: one per neighbor, in the order of the list
NeighborListRows(o, collected_at) ==
    LET neighbors == Get(Get(o, "ospf"), "neighbors").l
    IN  [k \in 1..Len(neighbors) |->
            <<_pick_host(o, "unknown"), Get(neighbors[k], "neighbor_id"), Get(neighbors[k], "iface"),
              Get(neighbors[k], "state"), Get(neighbors[k], "dead_time_raw"),
              Get(neighbors[k], "address"), collected_at>>]

\* C20: when parse_ospf_objects has returned, for every object of the list
\* with a resolvable host whose ospf.neighbors is a list of neighbor objects
\* (the object the only one of its host, and not itself a flat neighbor
\* entry), the rows of that host are exactly one row <<host, neighbor_id,
\* iface, state, dead_time_raw, address, collected_at>> per neighbor, and the
\* host's summary has ospf_neighbors = the number of neighbors; an empty
\* list gives no row and a summary with ospf_neighbors = 0.
C20_OspfNeighborList ==
    (call.fn = "parse_ospf_objects" /\ call.done /\ ~call.ret.raised) =>
        \A i \in DOMAIN call.objs :
            (HasNeighborList(call.objs[i]) /\ OnlyOfHost(call.objs, i)) =>
                \E host \in {_pick_host(call.objs[i], "unknown")} :
                    /\ RowsOfHost(call.ret.rows, host) = NeighborListRows(call.objs[i], call.collected_at)
                    /\ host \in DOMAIN call.ret.summary
                    /\ call.ret.summary[host] =
                          <<host, call.collected_at, 0, 0,
                            Len(Get(Get(call.objs[i], "ospf"), "neighbors").l), "ok", "">>

\* a call on a host with two neighbors has returned their two rows and a
\* summary that counts two
C20_Witness ==
    /\ call.fn = "parse_ospf_objects" /\ call.done /\ ~call.ret.raised
    /\ call.objs = <<ObjTwoNeighbors, ObjOspf>>
    /\ Len(RowsOfHost(call.ret.rows, "r2")) = 2
    /\ call.ret.summary["r2"] = <<"r2", call.collected_at, 0, 0, 2, "ok", "">>

\* two values differ at most in the order of the elements of arrays, at
\* any depth
RECURSIVE SameUpToOrder(_, _)
SameUpToOrder(a, b) ==
    IF a.t # b.t THEN FALSE
    ELSE IF a.t = "list"
    THEN /\ Len(a.l) = Len(b.l)
         /\ \E pi \in [DOMAIN a.l -> DOMAIN a.l] :
               /\ \A i, j \in DOMAIN a.l : pi[i] = pi[j] => i = j
               /\ \A i \in DOMAIN a.l : SameUpToOrder(a.l[i], b.l[pi[i]])
    ELSE IF a.t = "dict"
    THEN /\ {a.d[i][1] : i \in DOMAIN a.d} = {b.d[i][1] : i \in DOMAIN b.d}
         /\ \A i \in DOMAIN a.d : SameUpToOrder(a.d[i][2], Get(b, a.d[i][1]))
    ELSE a = b

\* two arrays hold the same set of elements
SameSetOfElements(a, b) ==
    /\ a.t = "list" /\ b.t = "list"
    /\ \A i \in DOMAIN a.l : \E j \in DOMAIN b.l : SameUpToOrder(a.l[i], b.l[j])
    /\ \A j \in DOMAIN b.l : \E i \in DOMAIN a.l : SameUpToOrder(a.l[i], b.l[j])

CompareDone == call.fn = "_compute_summary_diff" /\ call.done

VerifyEvents == {"verify.ok", "verify.fail", "verify.no_version", "verify.tables.missing", "verify.error"}

\* the versions observed in raw_state and normalized_state
ObservedVersions ==
    {r[1] : r \in DOMAIN raw_state} \cup {normalized_state[i][1] : i \in DOMAIN normalized_state}

\* the version a verify run is about: the one given, else the most recent
\* one observed, NoVersion when there is none
VerifyTarget(version) ==
    IF version # NoVersion THEN version
    ELSE IF ObservedVersions = {} THEN NoVersion
    ELSE CHOOSE v \in ObservedVersions : \A w \in ObservedVersions : w <= v

\* the four checks of the claim on a version
VerifyChecks(target) ==
    /\ \E r \in DOMAIN raw_state : r[1] = target /\ r[3] \in {"bgp", "ospf"}
    /\ \E i \in DOMAIN normalized_state : normalized_state[i][1] = target
    /\ ~\E i \in DOMAIN normalized_state :
            normalized_state[i][1] = target /\ normalized_state[i][4] \in {SqlNull, JStr("")}
    /\ routing_created => ~\E r \in routing_summary : r[1] = "unknown"

\* C22: a verify run past the preflight returns EXIT_OK exactly when, for
\* its target version, a raw fact of kind bgp or ospf exists, a normalized
\* fact exists, no normalized fact has a NULL or empty key and, when
\* routing_summary exists, it holds no row of host "unknown"; the target is
\* the version given, else the most recent version observed in raw_state
\* and normalized_state; a failed check reports the count of every metric.
C22_VerifyPasses ==
    last.event \in VerifyEvents =>
        /\ last.rc = EXIT_OK <=>
              (VerifyTarget(last.version) # NoVersion /\ VerifyChecks(VerifyTarget(last.version)))
        /\ last.event # "verify.error" => last.target = VerifyTarget(last.version)
        /\ last.event = "verify.fail" =>
              /\ {"raw_bgp", "raw_ospf", "norm_bgp", "norm_ospf", "bad_keys"} \subseteq DOMAIN last.details
              /\ routing_created => "unknown_hosts" \in DOMAIN last.details
              /\ last.details.raw_bgp + last.details.raw_ospf =
                    BagCardinality([r \in {x \in DOMAIN raw_state : x[1] = last.target} |-> raw_state[r]])
              /\ last.details.norm_bgp + last.details.norm_ospf =
                    Cardinality({i \in DOMAIN normalized_state : normalized_state[i][1] = last.target})
              /\ last.details.bad_keys =
                    Cardinality({i \in DOMAIN normalized_state :
                        normalized_state[i][1] = last.target
                        /\ normalized_state[i][4] \in {SqlNull, JStr("")}})
              /\ routing_created =>
                    last.details.unknown_hosts = Cardinality({r \in routing_summary : r[1] = "unknown"})

\* a verify run of a version without facts, on a store that holds a summary
\* of the sentinel host, has failed and reported every metric
C22_Witness ==
    /\ last.event = "verify.fail" /\ last.rc = EXIT_PREFLIGHT_FAIL
    /\ last.version = 2 /\ last.target = 2
    /\ last.details = [raw_bgp |-> 0, raw_ospf |-> 0, norm_bgp |-> 0, norm_ospf |-> 0,
                       bad_keys |-> 0, unknown_hosts |-> 1]

\* an alias qualifies when the record holds it with a value other than
\* None and the empty string
Qualifies(src, k) == Has(src, k) /\ Get(src, k) # JNull /\ Get(src, k) # JStr("")

\* the configured order of a canonical field: the list of the table, the
\* field's own name when the table has none
ConfiguredOrder(table, canon) ==
    IF canon \in DOMAIN table THEN table[canon] ELSE <<canon>>

\* what the file lists for a section and field: a list of strings
FileLists(file, sect, k) ==
    /\ file.exists /\ file.y.t = "dict"
    /\ IsDict(Get(file.y, sect))
    /\ Has(Get(file.y, sect), k) /\ IsList(Get(Get(file.y, sect), k))

\* C23: the resolver returns the value of the first alias, in the order
\* configured for the canonical field, that the record holds with a value
\* other than None and the empty string, and the default when there is no
\* such alias; without an alias file the table is the built-in one, with
\* both sections; with a file, a field the file lists has the file's list
\* and every other field keeps its built-in list.
C23_AliasResolver ==
    (call.fn = "_get_with_aliases" /\ call.done) =>
        LET keys == ConfiguredOrder(call.ret.aliases.bgp_peer, call.canon)
            good == {i \in DOMAIN keys : Qualifies(call.src, keys[i])}
        IN  /\ ~call.ret.got.raised
            /\ good = {} => call.ret.got.val = JStr("-")
            /\ \A i \in good :
                  (\A j \in good : i <= j) => call.ret.got.val = Get(call.src, keys[i])
            /\ ~call.file.exists =>
                  /\ call.ret.aliases = BuiltinAliases
                  /\ DOMAIN call.ret.aliases = AliasSections
            /\ \A sect \in AliasSections :
                  /\ \A k \in DOMAIN call.ret.aliases[sect] :
                        IF FileLists(call.file, sect, k)
                        THEN call.ret.aliases[sect][k] = AliasList(Get(Get(call.file.y, sect), k))
                        ELSE /\ k \in DOMAIN BuiltinAliases[sect]
                             /\ call.ret.aliases[sect][k] = BuiltinAliases[sect][k]
                  /\ DOMAIN BuiltinAliases[sect] \subseteq DOMAIN call.ret.aliases[sect]

\* with a file that lists status before state for the field state, a record
\* whose status is empty and whose state is Idle has resolved to Idle, and
\* the field remoteAs has kept its built-in aliases
C23_Witness ==
    /\ call.fn = "_get_with_aliases" /\ call.done
    /\ call.canon = "state"
    /\ call.ret.aliases.bgp_peer.state = <<"status", "state">>
    /\ call.ret.aliases.bgp_peer.remoteAs = <<"remoteAs", "asn", "remote_as">>
    /\ Get(call.src, "status") = JStr("") /\ Get(call.src, "state") = JStr("Idle")
    /\ call.ret.got.val = JStr("Idle")

\* the rows of a version in each of the four tables
DiffRefs(diff, v) == {r \in DOMAIN diff : r[1] = v \/ r[2] = v}
NormOfVersion(norm, v) == {i \in DOMAIN norm : norm[i][1] = v}
RawOfVersion(raw, v) == {r \in DOMAIN raw : r[1] = v}
MetaOfVersion(meta, v) == {r \in DOMAIN meta : r[1] = v}

\* within a prune run, as its connection sees the tables: a version some of
\* whose rows are gone from a table
GoneFromNormalized(v) ==
    Cardinality(NormOfVersion(normalized_state, v)) < Cardinality(NormOfVersion(call.committed[2], v))
GoneFromRaw(v) == RawOfVersion(raw_state, v) # RawOfVersion(call.committed[3], v)
GoneFromMeta(v) == MetaOfVersion(schema_meta, v) # MetaOfVersion(call.committed[4], v)

\* C24: within one prune the deletions go summary_diff, normalized_state,
\* raw_state, schema_meta: no normalized_state or raw_state row of a pruned
\* version is gone while a summary_diff row that references the version
\* exists, no raw_state row is gone while a normalized_state row of the
\* version exists, no schema_meta row while a raw_state row exists; and they
\* are committed together: when the run ends, the four tables hold no row
\* of a pruned version, or all four are as they were before the run.
C24_PruneOrder ==
    /\ [](call.fn = "prune" =>
            \A v \in call.del :
                /\ (GoneFromNormalized(v) \/ GoneFromRaw(v)) => DiffRefs(summary_diff, v) = {}
                /\ GoneFromRaw(v) => NormOfVersion(normalized_state, v) = {}
                /\ GoneFromMeta(v) => RawOfVersion(raw_state, v) = {})
    /\ [][(call.fn = "prune" /\ call'.fn # "prune") =>
            \/ SnapshotStore' = call.committed
            \/ \A v \in call.del :
                  /\ DiffRefs(summary_diff', v) = {}
                  /\ NormOfVersion(normalized_state', v) = {}
                  /\ RawOfVersion(raw_state', v) = {}
                  /\ MetaOfVersion(schema_meta', v) = {}]_vars

\* a prune run has deleted the summary_diff rows that referenced a pruned
\* version and its normalized_state rows, and not yet its raw_state rows
C24_Witness ==
    /\ call.fn = "prune" /\ call.pc = 3
    /\ \E v \in call.del :
          /\ DiffRefs(call.committed[1], v) # {} /\ DiffRefs(summary_diff, v) = {}
          /\ NormOfVersion(call.committed[2], v) # {} /\ NormOfVersion(normalized_state, v) = {}
          /\ RawOfVersion(raw_state, v) # {}

\* the two decoded values differ structurally, as the comparison of the
\* call sees them
DiffersStructurally(a, b, set_unordered) ==
    IF set_unordered THEN ~SameUpToOrder(a, b) ELSE ~SameJson(a, b)

\* C25: for a key present in both versions, decoded values of different
\* types give exactly one row, with change = 'type', and no 'changed' row;
\* values of one type that differ structurally give exactly one row, with
\* change = 'changed', and no 'type' row.
C25_TypeOrChanged ==
    CompareDone =>
        /\ call.a.t # call.b.t =>
              call.ret.rows = {<<1, 2, "r1", "bgp_peer", "k", "type",
                                 json_dumps(call.a), json_dumps(call.b)>>}
        /\ (call.a.t = call.b.t /\ DiffersStructurally(call.a, call.b, call.set_unordered)) =>
              call.ret.rows = {<<1, 2, "r1", "bgp_peer", "k", "changed",
                                 json_dumps(call.a), json_dumps(call.b)>>}

\* an array in the base version and an object in the new one have given one
\* 'type' row, counted as changed
C25_Witness ==
    /\ CompareDone
    /\ call.a = JList(<<JInt(1), JInt(2)>>)
    /\ call.b = JDict(<< <<"f", JList(<<JInt(1), JInt(2)>>)>> >>)
    /\ {r[6] : r \in call.ret.rows} = {"type"}
    /\ call.ret.counts = [added |-> 0, removed |-> 0, changed |-> 1, total |-> 1]

MergeDone == call.fn = "merge" /\ call.done /\ ~call.ret.raised

\* C26: after the two passes of one ingest run there is exactly one merged
\* summary per host of either pass; for a host of both passes peers_total
\* and peers_established are the bgp pass's values and ospf_neighbors is the
\* maximum of the two passes' neighbor counts; a host of one pass only keeps
\* that pass's summary unchanged.
C26_MergeByHost ==
    MergeDone =>
        \E bgp \in {call.ret.bgp_summary}, ospf \in {call.ret.ospf_summary},
           merged \in {call.ret.summaries} :
            /\ DOMAIN merged = DOMAIN bgp \cup DOMAIN ospf
            /\ \A h \in DOMAIN merged :
                /\ merged[h][1] = h
                /\ (h \in DOMAIN bgp /\ h \in DOMAIN ospf) =>
                      /\ merged[h][3] = bgp[h][3]
                      /\ merged[h][4] = bgp[h][4]
                      /\ merged[h][5] = PyMax(bgp[h][5], ospf[h][5])
                /\ (h \in DOMAIN bgp /\ h \notin DOMAIN ospf) => merged[h] = bgp[h]
                /\ (h \in DOMAIN ospf /\ h \notin DOMAIN bgp) => merged[h] = ospf[h]

\* r1 is seen by both passes (one established peer, one neighbor), r2 by the
\* bgp pass only (two peers, one established)
C26_Witness ==
    /\ MergeDone
    /\ call.objs_bgp = <<ObjUp, ObjTwoPeers>>
    /\ call.objs_ospf = <<ObjOspf>>
    /\ DOMAIN call.ret.summaries = {"r1", "r2"}
    /\ call.ret.summaries["r1"] = <<"r1", call.collected_at, 1, 1, 1, "ok", "">>
    /\ call.ret.summaries["r2"] = <<"r2", call.collected_at, 2, 1, 0, "ok", "">>

\* the objects of a list whose host resolves
KnownHostObjects(objs) ==
    LET Known(o) == ~IsDict(o) \/ _pick_host(o, "unknown") # "unknown" IN SelectSeq(objs, Known)

ParseOn(fn, objs, collected_at, strict) ==
    IF fn = "parse_bgp_objects"
    THEN parse_bgp_objects(objs, collected_at, strict, BuiltinAliases)
    ELSE parse_ospf_objects(objs, collected_at, strict, BuiltinAliases)

StrictReturned ==
    call.fn \in {"parse_bgp_objects", "parse_ospf_objects"} /\ call.done /\ call.strict
    /\ ~call.ret.raised

\* C27: with strict = true, in either parser, the objects whose host resolves
\* to "unknown" contribute nothing: the rows and the summary are those of
\* the list without these objects, no row has host "unknown" and the
\* summary has no entry for "unknown".
C27_StrictSkipsUnknown ==
    StrictReturned =>
        /\ \A i \in DOMAIN call.ret.rows : call.ret.rows[i][1] # "unknown"
        /\ "unknown" \notin DOMAIN call.ret.summary
        /\ \A h \in DOMAIN call.ret.summary : call.ret.summary[h][1] # "unknown"
        /\ \E rest \in {ParseOn(call.fn, KnownHostObjects(call.objs), call.collected_at, TRUE)} :
              /\ call.ret.rows = rest.rows
              /\ call.ret.summary = rest.summary

\* a strict bgp call on an object without a host and one of r1 has returned
\* r1's row and summary only
C27_Witness ==
    /\ StrictReturned
    /\ call.fn = "parse_bgp_objects"
    /\ call.objs = <<ObjNoHost, ObjUp>>
    /\ Len(call.ret.rows) = 1
    /\ DOMAIN call.ret.summary = {"r1"}

\* the number of rows of a host, and of its rows in an established state
RowCount(rows, host) == Len(RowsOfHost(rows, host))
EstablishedCount(rows, host) ==
    Cardinality({i \in DOMAIN rows : rows[i][1] = host /\ IsEstablished(rows[i][4])})

\* C28: for every list of harvested objects the summary a parser returns
\* agrees with its rows: per host, peers_total is the number of BGP rows of
\* the host and peers_established the number of those in an established
\* state; ospf_neighbors is the number of OSPF rows of the host.
C28_SummaryAgreesWithRows ==
    (call.fn \in {"parse_bgp_objects", "parse_ospf_objects"} /\ call.done /\ ~call.ret.raised) =>
        \A h \in DOMAIN call.ret.summary :
            IF call.fn = "parse_bgp_objects"
            THEN /\ call.ret.summary[h][3] = RowCount(call.ret.rows, h)
                 /\ call.ret.summary[h][4] = EstablishedCount(call.ret.rows, h)
            ELSE call.ret.summary[h][5] = RowCount(call.ret.rows, h)

\* the rows of a summary_diff table a diff run of the pair with the filters
\* may change: those of the pair whose host and kind match the filters
InScope(r, base_version, new_version, host_filter, kind_filter) ==
    /\ r[1] = base_version /\ r[2] = new_version
    /\ host_filter # "" => r[3] = host_filter
    /\ kind_filter # "" => r[4] = kind_filter

OutOfScope(diff, base_version, new_version, host_filter, kind_filter) ==
    [r \in {x \in DOMAIN diff : ~InScope(x, base_version, new_version, host_filter, kind_filter)}
        |-> diff[r]]

\* C29: in every reachable store, a diff of a pair (base, new) with a host
\* or kind filter changes only the summary_diff rows of the pair that match
\* the filter: the rows of the pair for other hosts or kinds, and the rows
\* of every other pair, are after the run what they were before it.
C29_FilteredDiffScope ==
    \A base \in Versions, new \in Versions, opt \in DiffOptions :
        OutOfScope(_compute_summary_diff(Conn, base, new, opt.host_filter, opt.kind_filter,
                                         opt.set_unordered).diff,
                   base, new, opt.host_filter, opt.kind_filter)
            = OutOfScope(summary_diff, base, new, opt.host_filter, opt.kind_filter)

\* the number of rows of a pair in a summary_diff table whose change is one
\* of the given
PairCount(diff, base_version, new_version, changes) ==
    BagCardinality([r \in {x \in DOMAIN diff : /\ x[1] = base_version /\ x[2] = new_version
                                               /\ x[6] \in changes} |-> diff[r]])

\* C30: in every reachable store, for every pair and every choice of
\* filters, the counts _compute_summary_diff returns are those of the rows
\* of the pair in summary_diff after the call: total = added + removed +
\* changed = the number of rows, added and removed the numbers of 'added'
\* and 'removed' rows, changed the number of 'changed' and 'type' rows; when
\* normalized_state or summary_diff does not exist it returns zeros and
\* writes nothing.
C30_CountsMatchRows ==
    \A base \in Versions, new \in Versions, opt \in DiffOptions :
        \E res \in {_compute_summary_diff(Conn, base, new, opt.host_filter, opt.kind_filter,
                                          opt.set_unordered)} :
            IF ~_table_exists("normalized_state") \/ ~_table_exists("summary_diff")
            THEN res.counts = ZeroCounts /\ res.diff = summary_diff
            ELSE /\ res.counts.total
                      = res.counts.added + res.counts.removed + res.counts.changed
                 /\ res.counts.total
                      = PairCount(res.diff, base, new, {"added", "removed", "changed", "type"})
                 /\ res.counts.total = BagCardinality(PairRows(res.diff, base, new))
                 /\ res.counts.added = PairCount(res.diff, base, new, {"added"})
                 /\ res.counts.removed = PairCount(res.diff, base, new, {"removed"})
                 /\ res.counts.changed = PairCount(res.diff, base, new, {"changed", "type"})

\* a diff run has stored the two 'added' rows of a pair (a peer and a
\* neighbor the base version does not have), the diff of the pair returns
\* these counts, and the diff of the reversed pair counts two 'removed' rows
C30_Witness ==
    /\ last.event = "diff.done"
    /\ \E base \in Versions, new \in Versions :
          /\ PairCount(summary_diff, base, new, {"added"}) = 2
          /\ _compute_summary_diff(Conn, base, new, "", "", FALSE).counts
                = [added |-> 2, removed |-> 0, changed |-> 0, total |-> 2]
          /\ _compute_summary_diff(Conn, base, new, "", "bgp_peer", FALSE).counts
                = [added |-> 1, removed |-> 0, changed |-> 0, total |-> 1]
          /\ _compute_summary_diff(Conn, new, base, "", "", FALSE).counts
                = [added |-> 0, removed |-> 2, changed |-> 0, total |-> 2]

====
